---- MODULE Spec2Model ----
(***************************************************************************)
(* Model of the balance-pairing core of pyCycle/ICCT:                      *)
(*   - balance_setup.py: extract_variables, NPSSDependent.create_component *)
(*     (textual substitution and evaluation of the residual expression)    *)
(*     and addPair (wiring of the OpenMDAO group);                         *)
(*   - NewBalanceComp.py: add_balance, apply_nonlinear and linearize;      *)
(*   - HBTF_engine_model.py: the addPair calls of HBTF.setup;              *)
(*   - run.py, simulation_core.py, set_model_inputs.py, collect_outputs.py *)
(*     and generate_outputs.py: the sweep over the input table;            *)
(*   - solver_converter.py: SolverConverter.                               *)
(* Text is a sequence of one-character strings, so that str.replace, the   *)
(* regular expressions and the evaluation of the generated Python text     *)
(* are computed character by character.  Floating point numbers are        *)
(* modelled as exact rationals <<n, d>>; numpy integer arrays keep their   *)
(* integer dtype (assignment of a float into them truncates).              *)
(***************************************************************************)
EXTENDS Integers, Sequences, FiniteSets, TLC

VARIABLES
    graph,      \* the group under assembly by addPair
    calls,      \* the arguments of the addPair calls made, in order
    ncalls,     \* number of addPair calls made
    nsets,      \* number of set_val calls made
    comp,       \* the NewBalanceComp under assembly
    nb_call,    \* the arguments of the last add_balance call, <<>> before the first
    phase,      \* "assemble" until Problem.setup, then "run", "applied"
    nb_inputs,  \* the inputs vector of the last apply_nonlinear call
    residuals,  \* the residuals vector of the NewBalanceComp
    jacobian,   \* the entries linearize wrote into the Jacobian
    sweep_pc,   \* position of run.main / run_simulations
    input_data, \* the table read_input_csv returned
    row_i,      \* index of the row of the sweep's for loop
    prob,       \* the Problem of the current row
    nprob,      \* number of Problems constructed so far
    all_results,\* the list all_results of run_simulations
    written,    \* the rows generate_outputs wrote, <<>> before it ran
    cycle_point,\* the operating point HBTF.setup is run for, "none" before
    cycle,      \* the cycle group under assembly by HBTF.setup
    cycle_calls,\* the addPair calls HBTF.setup has made, in order
    sc_independents, \* SolverConverter.independents
    sc_dependents,   \* SolverConverter.dependents
    sc_model,        \* the model and balance component the converter wires
    sc_pc            \* "define" until setup_solver was called, then "done"

pairVars == <<graph, calls, ncalls, nsets>>

nbVars == <<comp, nb_call, phase, nb_inputs, residuals, jacobian>>

sweepVars == <<sweep_pc, input_data, row_i, prob, nprob, all_results, written>>

cycleVars == <<cycle_point, cycle, cycle_calls>>

scVars == <<sc_independents, sc_dependents, sc_model, sc_pc>>

vars ==
    <<graph, calls, ncalls, nsets, comp, nb_call, phase, nb_inputs, residuals, jacobian,
      sweep_pc, input_data, row_i, prob, nprob, all_results, written,
      cycle_point, cycle, cycle_calls, sc_independents, sc_dependents, sc_model, sc_pc>>

(***************************************************************************)
(* Characters and text                                                     *)
(***************************************************************************)
Letters ==
    {"a", "b", "c", "d", "e", "f", "g", "h", "i", "j", "k", "l", "m", "n", "o", "p", "q", "r", "s", "t", "u", "v", "w", "x", "y",
     "z", "A", "B", "C", "D", "E", "F", "G", "H", "I", "J", "K", "L", "M", "N", "O", "P", "Q", "R", "S", "T", "U", "V", "W", "X", "Y", "Z"}

Digits == {"0", "1", "2", "3", "4", "5", "6", "7", "8", "9"}

\* \w of Python's re module
IsWord(c) == c \in Letters \cup Digits \cup {"_"}

\* the class [A-Za-z_]
IsIdStart(c) == c \in Letters \cup {"_"}

\* the class [A-Za-z0-9_.:]
IsTokChar(c) == IsWord(c) \/ c \in {".", ":"}

DigitVal(c) ==
    CASE c = "0" -> 0 [] c = "1" -> 1 [] c = "2" -> 2 [] c = "3" -> 3 [] c = "4" -> 4
      [] c = "5" -> 5 [] c = "6" -> 6 [] c = "7" -> 7 [] c = "8" -> 8 [] c = "9" -> 9

\* s[i..j] (empty when j < i)
Sub(s, i, j) == SubSeq(s, i, j)

StartsWith(s, p) == Len(s) >= Len(p) /\ SubSeq(s, 1, Len(p)) = p

RECURSIVE Replace(_, _, _)
\* Python's s.replace(old, new) for a non-empty old: leftmost non-overlapping
\* occurrences, scanned left to right
Replace(s, old, new) ==
    IF Len(s) < Len(old) THEN s
    ELSE IF StartsWith(s, old)
         THEN new \o Replace(SubSeq(s, Len(old) + 1, Len(s)), old, new)
         ELSE <<s[1]>> \o Replace(Tail(s), old, new)

RECURSIVE ReplaceChar(_, _, _)
\* s.replace(c, d) for single characters c, d
ReplaceChar(s, c, d) ==
    IF s = <<>> THEN <<>>
    ELSE <<(IF s[1] = c THEN d ELSE s[1])>> \o ReplaceChar(Tail(s), c, d)

RECURSIVE Strip(_)
\* str.strip() for blanks
Strip(s) ==
    IF s = <<>> THEN s
    ELSE IF s[1] = " " THEN Strip(Tail(s))
    ELSE IF s[Len(s)] = " " THEN Strip(SubSeq(s, 1, Len(s) - 1))
    ELSE s

\* the elements of a sequence
Range(s) == {s[i] : i \in 1..Len(s)}

(***************************************************************************)
(* extract_variables: re.findall(r'\b[A-Za-z_][A-Za-z0-9_.:]*\b', expr)    *)
(***************************************************************************)
\* \b between positions k and k+1 of s (k = 0: before the text)
Boundary(s, k) ==
    LET l == k >= 1 /\ k <= Len(s) /\ IsWord(s[k])
        r == k + 1 >= 1 /\ k + 1 <= Len(s) /\ IsWord(s[k + 1])
    IN  l # r

\* end of the greedy run of [A-Za-z0-9_.:] that starts at i
RECURSIVE RunEnd(_, _)
RunEnd(s, i) ==
    IF i + 1 <= Len(s) /\ IsTokChar(s[i + 1]) THEN RunEnd(s, i + 1) ELSE i

\* backtracking of the greedy run to the last position followed by \b
RECURSIVE BackToBoundary(_, _)
BackToBoundary(s, k) ==
    IF Boundary(s, k) THEN k ELSE BackToBoundary(s, k - 1)

RECURSIVE FindAllFrom(_, _)
FindAllFrom(s, i) ==
    IF i > Len(s) THEN <<>>
    ELSE IF IsIdStart(s[i]) /\ Boundary(s, i - 1)
         THEN LET k == BackToBoundary(s, RunEnd(s, i))
              IN  <<SubSeq(s, i, k)>> \o FindAllFrom(s, k + 1)
         ELSE FindAllFrom(s, i + 1)

extract_variables(expr) == FindAllFrom(expr, 1)

(***************************************************************************)
(* Evaluation of the generated Python text                                 *)
(*   outputs["residual"] = <eq_lhs_comp> - (<eq_rhs_comp>)                 *)
(* by exec with locals {inputs, outputs}.  The text is split into Python   *)
(* tokens and evaluated over + - * and parentheses; every text Python      *)
(* rejects (SyntaxError, NameError, KeyError, TypeError) evaluates to the  *)
(* failure result.  The expressions of the model use no '/' and no float   *)
(* literal.                                                                *)
(***************************************************************************)
Tok(k, v) == [k |-> k, v |-> v]

RECURSIVE WordEnd(_, _)
\* end of the run of \w that starts at i
WordEnd(s, i) ==
    IF i + 1 <= Len(s) /\ IsWord(s[i + 1]) THEN WordEnd(s, i + 1) ELSE i

RECURSIVE DigitEnd(_, _)
DigitEnd(s, i) ==
    IF i + 1 <= Len(s) /\ s[i + 1] \in Digits THEN DigitEnd(s, i + 1) ELSE i

RECURSIVE QuoteEnd(_, _)
\* position of the next '"' at or after i, 0 when there is none
QuoteEnd(s, i) ==
    IF i > Len(s) THEN 0 ELSE IF s[i] = "\"" THEN i ELSE QuoteEnd(s, i + 1)

RECURSIVE PyLexFrom(_, _)
PyLexFrom(s, i) ==
    IF i > Len(s) THEN <<>>
    ELSE IF s[i] = " " THEN PyLexFrom(s, i + 1)
    ELSE IF IsIdStart(s[i])
         THEN LET j == WordEnd(s, i)
              IN  <<Tok("name", SubSeq(s, i, j))>> \o PyLexFrom(s, j + 1)
    ELSE IF s[i] \in Digits
         THEN LET j == DigitEnd(s, i)
              IN  IF j + 1 <= Len(s) /\ (IsIdStart(s[j + 1]) \/ s[j + 1] = ".")
                  THEN <<Tok("bad", SubSeq(s, i, j + 1))>>
                  ELSE <<Tok("num", SubSeq(s, i, j))>> \o PyLexFrom(s, j + 1)
    ELSE IF s[i] = "\""
         THEN LET j == QuoteEnd(s, i + 1)
              IN  IF j = 0 THEN <<Tok("bad", <<s[i]>>)>>
                  ELSE <<Tok("str", SubSeq(s, i + 1, j - 1))>> \o PyLexFrom(s, j + 1)
    ELSE <<Tok("op", <<s[i]>>)>> \o PyLexFrom(s, i + 1)

PyLex(s) == PyLexFrom(s, 1)

RECURSIVE NumVal(_)
\* value of a decimal literal
NumVal(ds) ==
    IF ds = <<>> THEN 0
    ELSE 10 * NumVal(SubSeq(ds, 1, Len(ds) - 1)) + DigitVal(ds[Len(ds)])

Fail == [ok |-> FALSE, val |-> 0, pos |-> 0]

Ok(v, p) == [ok |-> TRUE, val |-> v, pos |-> p]

IsOp(t, p, c) == p <= Len(t) /\ t[p].k = "op" /\ t[p].v = <<c>>

T_inputs == <<"i", "n", "p", "u", "t", "s">>

RECURSIVE PExpr(_, _, _)
RECURSIVE PExprRest(_, _, _, _)
RECURSIVE PTerm(_, _, _)
RECURSIVE PTermRest(_, _, _, _)
RECURSIVE PFactor(_, _, _)

\* atom: literal, parenthesised expression, unary minus, or the subscription
\* inputs["key"] of a declared input (a "var" token, which PyLex never
\* produces, is a variable reference of the equation as written)
PFactor(t, p, inp) ==
    IF p > Len(t) THEN Fail
    ELSE IF t[p].k = "num" THEN Ok(NumVal(t[p].v), p + 1)
    ELSE IF IsOp(t, p, "(")
         THEN LET r == PExpr(t, p + 1, inp)
              IN  IF r.ok /\ IsOp(t, r.pos, ")") THEN Ok(r.val, r.pos + 1) ELSE Fail
    ELSE IF IsOp(t, p, "-")
         THEN LET r == PFactor(t, p + 1, inp)
              IN  IF r.ok THEN Ok(0 - r.val, r.pos) ELSE Fail
    ELSE IF t[p].k = "var" /\ t[p].v \in DOMAIN inp THEN Ok(inp[t[p].v], p + 1)
    ELSE IF /\ t[p].k = "name" /\ t[p].v = T_inputs
            /\ IsOp(t, p + 1, "[")
            /\ p + 2 <= Len(t) /\ t[p + 2].k = "str"
            /\ IsOp(t, p + 3, "]")
            /\ t[p + 2].v \in DOMAIN inp
         THEN Ok(inp[t[p + 2].v], p + 4)
    ELSE Fail

PTermRest(t, acc, p, inp) ==
    IF IsOp(t, p, "*")
    THEN LET r == PFactor(t, p + 1, inp)
         IN  IF r.ok THEN PTermRest(t, acc * r.val, r.pos, inp) ELSE Fail
    ELSE Ok(acc, p)

PTerm(t, p, inp) ==
    LET r == PFactor(t, p, inp)
    IN  IF r.ok THEN PTermRest(t, r.val, r.pos, inp) ELSE Fail

PExprRest(t, acc, p, inp) ==
    IF IsOp(t, p, "+")
    THEN LET r == PTerm(t, p + 1, inp)
         IN  IF r.ok THEN PExprRest(t, acc + r.val, r.pos, inp) ELSE Fail
    ELSE IF IsOp(t, p, "-")
    THEN LET r == PTerm(t, p + 1, inp)
         IN  IF r.ok THEN PExprRest(t, acc - r.val, r.pos, inp) ELSE Fail
    ELSE Ok(acc, p)

PExpr(t, p, inp) ==
    LET r == PTerm(t, p, inp)
    IN  IF r.ok THEN PExprRest(t, r.val, r.pos, inp) ELSE Fail

\* exec of the expression text against the inputs vector: [ok, val]
PyEval(text, inp) ==
    LET t == PyLex(text)
        r == PExpr(t, 1, inp)
    IN  IF r.ok /\ r.pos = Len(t) + 1
        THEN [ok |-> TRUE, val |-> r.val]
        ELSE [ok |-> FALSE, val |-> 0]


(***************************************************************************)
(* Text constants of balance_setup.py                                      *)
(***************************************************************************)
T_no_name == <<"n", "o", "_", "n", "a", "m", "e">>

T_dependent_comp_ == <<"d", "e", "p", "e", "n", "d", "e", "n", "t", "_", "c", "o", "m", "p", "_">>

T_comp == <<"_", "c", "o", "m", "p">>

T_residual == <<".", "r", "e", "s", "i", "d", "u", "a", "l">>

T_balance_ == <<"b", "a", "l", "a", "n", "c", "e", ".">>

T_lhs_ == <<"l", "h", "s", ":">>

T_rhs_ == <<"r", "h", "s", ":">>

T_rhs_u == <<"r", "h", "s", "_">>

T_open == <<"i", "n", "p", "u", "t", "s", "[", "\"">>

T_close == <<"\"", "]">>

T_minus_open == <<" ", "-", " ", "(">>

T_rparen == <<")">>

(***************************************************************************)
(* NPSSDependent.create_component                                          *)
(***************************************************************************)
\* an optional value: <<>> is None, <<v>> is the value v
None == <<>>

Some(v) == <<v>>

\* var.replace('.', '_')
VarName(var) == ReplaceChar(var, ".", "_")

\* f'inputs["{var_map[var]}"]'
InputLookup(var) == T_open \o VarName(var) \o T_close

\* set(lhs_vars + rhs_vars)
AllVars(eq_lhs, eq_rhs) == Range(extract_variables(eq_lhs) \o extract_variables(eq_rhs))

\* the orders in which Python may iterate the set S
Orders(S) == {o \in [1..Cardinality(S) -> S] : \A i, j \in 1..Cardinality(S) : o[i] = o[j] => i = j}

RECURSIVE SubstituteFrom(_, _, _)
\* for var in all_vars: text = text.replace(var, f'inputs["{var_map[var]}"]')
SubstituteFrom(text, order, i) ==
    IF i > Len(order) THEN text
    ELSE SubstituteFrom(Replace(text, order[i], InputLookup(order[i])), order, i + 1)

Substitute(text, order) == SubstituteFrom(text, order, 1)

\* the DependentComponent built for a dependent: its declared inputs and the
\* two substituted texts of compute_expression
create_component(dep, order) ==
    [inputs      |-> {VarName(v) : v \in AllVars(dep.eq_lhs, dep.eq_rhs)},
     eq_lhs_comp |-> Substitute(dep.eq_lhs, order),
     eq_rhs_comp |-> Substitute(dep.eq_rhs, order),
     units       |-> dep.eq_units]

\* DependentComponent.compute: exec(compute_expression) on the inputs vector inp
Compute(unit, inp) ==
    PyEval(unit.eq_lhs_comp \o T_minus_open \o unit.eq_rhs_comp \o T_rparen, inp)


(***************************************************************************)
(* The OpenMDAO group that addPair wires.  A graph is the record            *)
(*   subsystems  : names given to Group.add_subsystem (hasattr(self, n))   *)
(*   depUnits    : the DependentComponents, by subsystem name              *)
(*   producers   : <<subsystem, promoted output name>>                     *)
(*   sigval      : value held by each promoted output                      *)
(*   connections : Group._manual_connections, target -> source             *)
(*   balStates   : the balance component's _state_vars                     *)
(*   balInputs   : inputs added to the balance by balance.add_input        *)
(*   err         : the exception that ended the call, "none" if it returned*)
(***************************************************************************)
\* re.split(r'[*/+\-\s]+', text): the maximal runs of other characters
IsSplitChar(c) == c \in {"*", "/", "+", "-", " "}

RECURSIVE PieceEnd(_, _)
PieceEnd(s, i) ==
    IF i + 1 <= Len(s) /\ ~IsSplitChar(s[i + 1]) THEN PieceEnd(s, i + 1) ELSE i

RECURSIVE SplitFrom(_, _)
SplitFrom(s, i) ==
    IF i > Len(s) THEN <<>>
    ELSE IF IsSplitChar(s[i]) THEN SplitFrom(s, i + 1)
    ELSE LET j == PieceEnd(s, i)
         IN  <<SubSeq(s, i, j)>> \o SplitFrom(s, j + 1)

\* [v for v in re.split(r'[*/+\-\s]+', eq_rhs.strip()) if v]
rhs_vars(eq_rhs) == Range(SplitFrom(Strip(eq_rhs), 1))

\* f'dependent_comp_{Dependent_obj.name}'
DepCompName(dep) == T_dependent_comp_ \o dep.name

\* Group.add_subsystem: the name must be new
add_subsystem(g, name) ==
    IF g.err # "none" THEN g
    ELSE IF name \in g.subsystems THEN [g EXCEPT !.err = "RuntimeError"]
    ELSE [g EXCEPT !.subsystems = @ \cup {name}]

\* Group.connect: an input that already has a source is refused
connect(g, src, tgt) ==
    IF g.err # "none" THEN g
    ELSE IF tgt \in DOMAIN g.connections THEN [g EXCEPT !.err = "RuntimeError"]
    ELSE [g EXCEPT !.connections = (tgt :> src) @@ @]

\* an expression given as a Python number instead of a str is written as the
\* mark "#" followed by its digits; "#" occurs in no expression text
PyNumber(ds) == <<"#">> \o ds

IsStr(x) == x = <<>> \/ x[1] # "#"

\* dep_comp = Dependent_obj.create_component(): re.findall raises TypeError
\* on an expression that is not a str;
\* self.add_subsystem(f'dependent_comp_{name}', dep_comp)
AddDepComp(g, dep, order) ==
    IF g.err # "none" THEN g
    ELSE IF ~IsStr(dep.eq_lhs) \/ ~IsStr(dep.eq_rhs) THEN [g EXCEPT !.err = "TypeError"]
    ELSE LET h == add_subsystem(g, DepCompName(dep))
         IN  IF h.err # "none" THEN h
             ELSE [h EXCEPT !.depUnits = (DepCompName(dep) :> create_component(dep, order)) @@ @]

\* a faulty add_balance that stores the dependent's eq_units as the state's
\* units and the independent's units as eq_units
add_balance_UnitsSwapped(g, dep, indep) ==
    IF g.err # "none" THEN g
    ELSE LET options == [val |-> indep.val, lower |-> indep.lower, upper |-> indep.upper,
                         units |-> dep.eq_units, eq_units |-> indep.units]
             stored == [n \in DOMAIN g.balStates \cup {indep.name} |->
                           IF n = indep.name THEN options ELSE g.balStates[n]]
         IN  IF indep.name \in DOMAIN g.balStates
             THEN [g EXCEPT !.balStates = stored, !.err = "ValueError"]
             ELSE [g EXCEPT !.balStates = stored]

\* balance.add_balance(name, val=, lower=, upper=, units=, eq_units=):
\* _state_vars[name] is assigned first, then add_output refuses a name in use
add_balance(g, dep, indep) ==
    IF g.err # "none" THEN g
    ELSE LET options == [val |-> indep.val, lower |-> indep.lower, upper |-> indep.upper,
                         units |-> indep.units, eq_units |-> dep.eq_units]
             stored == [n \in DOMAIN g.balStates \cup {indep.name} |->
                           IF n = indep.name THEN options ELSE g.balStates[n]]
         IN  IF indep.name \in DOMAIN g.balStates
             THEN [g EXCEPT !.balStates = stored, !.err = "ValueError"]
             ELSE [g EXCEPT !.balStates = stored]

\* balance.add_input(rhs_name, val=value_rhs, units=eq_units)
BalanceAddInput(g, name, val) ==
    IF g.err # "none" THEN g
    ELSE IF name \in DOMAIN g.balInputs THEN [g EXCEPT !.err = "ValueError"]
    ELSE [g EXCEPT !.balInputs = (name :> val) @@ @]

\* self.add_subsystem(f'{var_name}_comp', om.IndepVarComp(var_name, val=val),
\*                    promotes_outputs=[var_name])
AddIndepVarComp(g, var_name, val) ==
    LET h == add_subsystem(g, var_name \o T_comp)
    IN  IF h.err # "none" THEN h
        ELSE [h EXCEPT !.producers = @ \cup {<<var_name \o T_comp, var_name>>},
                       !.sigval = IF var_name \in DOMAIN @ THEN @ ELSE (var_name :> val) @@ @]

\* the "Handle RHS value" block
HandleRhsValue(g, dep, indep) ==
    IF dep.value_rhs # None
    THEN LET rhs_name == T_rhs_u \o indep.name
         IN  connect(BalanceAddInput(g, rhs_name, dep.value_rhs[1]),
                     rhs_name, T_balance_ \o T_rhs_ \o indep.name)
    ELSE g

\* a faulty loop body that builds the target from the variable as written in
\* the equation instead of its input name
WireVar_RawTarget(g, dep, var) ==
    LET var_name == VarName(var)
        tgt == DepCompName(dep) \o <<".">> \o var
    IN  IF var \in rhs_vars(dep.eq_rhs)
        THEN IF ~(var_name \o T_comp \in g.subsystems)
             THEN IF dep.interconnect_rhs
                  THEN connect(g, var, tgt)
                  ELSE connect(AddIndepVarComp(g, var_name,
                                  IF dep.value_rhs = None THEN 0 ELSE dep.value_rhs[1]),
                               var_name, tgt)
             ELSE g
        ELSE connect(g, var, tgt)

\* the body of "for var in all_vars" for one variable
WireVar(g, dep, var) ==
    LET var_name == VarName(var)
        tgt == DepCompName(dep) \o <<".">> \o var_name
    IN  IF var \in rhs_vars(dep.eq_rhs)
        THEN IF ~(var_name \o T_comp \in g.subsystems)
             THEN IF dep.interconnect_rhs
                  THEN connect(g, var, tgt)
                  ELSE connect(AddIndepVarComp(g, var_name,
                                  IF dep.value_rhs = None THEN 0 ELSE dep.value_rhs[1]),
                               var_name, tgt)
             ELSE g
        ELSE IF Some(var) = dep.promotion_lhs
             THEN connect(g, var, tgt)
             ELSE connect(g, var, tgt)

RECURSIVE WireVars(_, _, _, _)
WireVars(g, dep, order, i) ==
    IF i > Len(order) \/ g.err # "none" THEN g
    ELSE WireVars(WireVar(g, dep, order[i]), dep, order, i + 1)

\* addPair(self, balance, Dependent_obj, Independent_obj); order is the
\* iteration order of the set all_vars
addPair(g, dep, indep, order) ==
    LET g1 == AddDepComp([g EXCEPT !.err = "none"], dep, order)
        g2 == add_balance(g1, dep, indep)
        g3 == connect(g2, T_balance_ \o indep.name, indep.varName)
        g4 == connect(g3, DepCompName(dep) \o T_residual, T_balance_ \o T_lhs_ \o indep.name)
        g5 == HandleRhsValue(g4, dep, indep)
    IN  WireVars(g5, dep, order, 1)


(***************************************************************************)
(* The dependents and independents the model draws from                    *)
(***************************************************************************)
V_a_b == <<"a", ".", "b">>

V_c == <<"c">>

V_s == <<"s">>

V_a == <<"a">>

V_ab == <<"a", "b">>

V_x == <<"x">>

V_y == <<"y">>

\* 'a.b + c' = '10', the equation of the end-to-end scenario
E_ab_c == [lhs |-> <<"a", ".", "b", " ", "+", " ", "c">>, rhs |-> <<"1", "0">>]

\* 'y' = 'x': a signal against an auto-created constant, as in HBTF.setup
E_y_x == [lhs |-> V_y, rhs |-> V_x]

\* 'c + s' = '10': 's' occurs in the lookup text inputs["c"]
E_c_s == [lhs |-> <<"c", " ", "+", " ", "s">>, rhs |-> <<"1", "0">>]

\* 'ab - a' = '10': the token 'a' is a substring of the token 'ab'
E_ab_a == [lhs |-> <<"a", "b", " ", "-", " ", "a">>, rhs |-> <<"1", "0">>]

\* 'y' = 'rhs_W': the rhs variable has the name addPair gives the rhs source
\* of the independent W
E_y_rhs_W == [lhs |-> V_y, rhs |-> <<"r", "h", "s", "_", "W">>]

\* 'y' = '(x)': the rhs variable stands in parentheses
E_y_px == [lhs |-> V_y, rhs |-> <<"(", "x", ")">>]

\* 'b:T + b:T' = 'x': a token with ':' that occurs twice, like
\* 'burner.Fl_O:tot:T' of the engine model
V_bT == <<"b", ":", "T">>

E_bT_x == [lhs |-> <<"b", ":", "T", " ", "+", " ", "b", ":", "T">>, rhs |-> V_x]

\* 'a.b + a_b' = '10': two tokens with the same input name
E_ab_a_b == [lhs |-> <<"a", ".", "b", " ", "+", " ", "a", "_", "b">>, rhs |-> <<"1", "0">>]

\* '2 * 3' = '3 - 1': no variable
E_num == [lhs |-> <<"2", " ", "*", " ", "3">>, rhs |-> <<"3", " ", "-", " ", "1">>]

\* '1.e5' = '10': no variable, the lhs is a float literal
E_1e5 == [lhs |-> <<"1", ".", "e", "5">>, rhs |-> <<"1", "0">>]

\* 'y' = 10: the rhs is the number 10, not the text '10'
E_y_10 == [lhs |-> V_y, rhs |-> PyNumber(<<"1", "0">>)]

\* 'y +' = '10': the lhs is no arithmetic expression
E_bad == [lhs |-> <<"y", " ", "+">>, rhs |-> <<"1", "0">>]

DepNames == {T_no_name, <<"d", "1">>}

Dep(name, eq, value_rhs, interconnect_rhs) ==
    [name |-> name, eq_lhs |-> eq.lhs, eq_rhs |-> eq.rhs, value_rhs |-> value_rhs,
     eq_units |-> "lbf", interconnect_rhs |-> interconnect_rhs, promotion_lhs |-> None]

Dependents ==
    {Dep(n, E_y_x, v, i) : n \in DepNames, v \in {None, Some(5)}, i \in BOOLEAN}
    \cup {Dep(n, E_y_x, Some(0), FALSE) : n \in DepNames}
    \cup {Dep(n, E_y_rhs_W, Some(5), FALSE) : n \in DepNames}
    \cup {Dep(<<"d", "1">>, e, None, FALSE) : e \in {E_y_px, E_bT_x, E_ab_a_b, E_num, E_1e5, E_y_10, E_bad}}
    \cup {[Dep(<<"d", "1">>, E_y_x, None, FALSE) EXCEPT !.promotion_lhs = Some(v)] : v \in {V_x, V_y}}
    \cup {Dep(n, e, None, FALSE) : n \in DepNames, e \in {E_ab_c, E_c_s, E_ab_a}}

Independents ==
    {[name |-> <<"W">>, varName |-> <<"f", "c", ".", "W">>, units |-> "lbm/s",
      val |-> None, lower |-> None, upper |-> None],
     [name |-> <<"F", "A", "R">>, varName |-> <<"b", ".", "F", "A", "R">>, units |-> "None",
      val |-> Some(2), lower |-> Some(1), upper |-> Some(16)]}

\* values a signal can be set to
Vals == {0, 5, 10}

MaxCalls == 2

MaxSets == 1

(***************************************************************************)
(* Initial state and actions of the group                                  *)
(***************************************************************************)
T_balance == <<"b", "a", "l", "a", "n", "c", "e">>

T_ext == <<"e", "x", "t">>

\* the outputs the surrounding engine model already produces, with their values
ExistingSignals ==
    (V_y :> 0) @@ (V_bT :> 6) @@ (V_a_b :> 5) @@ (V_c :> 4) @@ (V_s :> 1) @@ (V_a :> 2) @@ (V_ab :> 7)

InitGraph ==
    [subsystems  |-> {T_balance, T_ext},
     depUnits    |-> <<>>,
     producers   |-> {<<T_ext, n>> : n \in DOMAIN ExistingSignals},
     sigval      |-> ExistingSignals,
     connections |-> <<>>,
     balStates   |-> <<>>,
     balInputs   |-> <<>>,
     err         |-> "none"]

\* one call of addPair, made from setup() before any value is set; an
\* exception ends model assembly
AddPair ==
    /\ graph.err = "none"
    /\ nsets = 0
    /\ ncalls < MaxCalls
    /\ \E dep \in Dependents, indep \in Independents :
         \E order \in Orders(AllVars(dep.eq_lhs, dep.eq_rhs)) :
            /\ graph' = addPair(graph, dep, indep, order)
            /\ calls' = Append(calls, [dep |-> dep, indep |-> indep, order |-> order])
    /\ ncalls' = ncalls + 1
    /\ UNCHANGED <<nsets, nbVars, sweepVars, cycleVars, scVars>>

\* prob.set_val(name, v) on an output of the group, or a new value of a
\* signal computed by the engine model
SetVal ==
    /\ graph.err = "none"
    /\ nsets < MaxSets
    /\ \E n \in DOMAIN graph.sigval, v \in Vals :
         /\ graph.sigval[n] # v
         /\ graph' = [graph EXCEPT !.sigval[n] = v]
    /\ nsets' = nsets + 1
    /\ UNCHANGED <<calls, ncalls, nbVars, sweepVars, cycleVars, scVars>>

Next == AddPair \/ SetVal


(***************************************************************************)
(* Numbers of NewBalanceComp.  A float is an exact rational <<n, d>> in    *)
(* lowest terms with d > 0 (rounding is not modelled); an array is         *)
(* [dtype, v] with dtype "int" or "float" and v the sequence of elements.  *)
(***************************************************************************)
RECURSIVE GCD(_, _)
GCD(a, b) == IF b = 0 THEN a ELSE GCD(b, a % b)

IAbs(n) == IF n < 0 THEN 0 - n ELSE n

Rat(n, d) ==
    LET g == GCD(IAbs(n), IAbs(d))
        sg == IF d < 0 THEN 0 - 1 ELSE 1
    IN  <<(sg * n) \div g, (sg * d) \div g>>

RInt(n) == <<n, 1>>

RAdd(a, b) == Rat(a[1] * b[2] + b[1] * a[2], a[2] * b[2])

RSub(a, b) == Rat(a[1] * b[2] - b[1] * a[2], a[2] * b[2])

RMul(a, b) == Rat(a[1] * b[1], a[2] * b[2])

\* 1.0 / a for a # 0
RInv(a) == Rat(a[2], a[1])

RAbs(a) == <<IAbs(a[1]), a[2]>>

RLess(a, b) == a[1] * b[2] < b[1] * a[2]

\* conversion of a float to a numpy integer: truncation toward zero
RTrunc(a) == IF a[1] >= 0 THEN RInt(a[1] \div a[2]) ELSE RInt(0 - ((0 - a[1]) \div a[2]))

\* what an array of dtype dt holds after the assignment of the float a
Cast(dt, a) == IF dt = "int" THEN RTrunc(a) ELSE a

\* a Python scalar: an int or a float
PyInt(n) == [dtype |-> "int", q |-> RInt(n)]

PyFloat(n, d) == [dtype |-> "float", q |-> Rat(n, d)]

\* sequence of length n holding x
Full(n, x) == [i \in 1..n |-> x]

\* np.full(shape, val) for a scalar val: the array takes the scalar's type
np_full(shape, val) == [dtype |-> val.dtype, v |-> Full(shape, val.q)]

\* np.ones(shape): a float array
np_ones(shape) == [dtype |-> "float", v |-> Full(shape, RInt(1))]

(***************************************************************************)
(* NewBalanceComp.add_balance.  A component is the record                  *)
(*   state_vars : _state_vars, name -> options                             *)
(*   outputs    : the names given to add_output                            *)
(*   inputs     : the ports given to add_input, name -> default array      *)
(*   partials   : the declared <<of, wrt>> pairs                           *)
(*   err        : the exception that ended the call, "none" if it returned *)
(***************************************************************************)
\* a faulty port name that ignores the name the call gave
PortName_NeverGiven(given, s, name) == s \o ":" \o name

\* '{0}:{1}'.format(s, name) unless a name was given
PortName(given, s, name) == IF given = None THEN s \o ":" \o name ELSE given[1]

\* the options dict as stored by line 125, before any port is declared
RawOptions(a) ==
    [eq_units |-> a.eq_units, lhs_name |-> a.lhs_name, rhs_name |-> a.rhs_name,
     lhs_val |-> a.lhs_val, rhs_val |-> a.rhs_val, use_mult |-> a.use_mult,
     mult_name |-> a.mult_name, mult_val |-> a.mult_val, normalize |-> a.normalize,
     shape |-> a.shape]

\* the same dict when add_balance returns: default port names filled in and
\* the constants expanded to arrays of the state's shape
FinalOptions(a) ==
    [eq_units |-> a.eq_units,
     lhs_name |-> Some(PortName(a.lhs_name, "lhs", a.name)),
     rhs_name |-> Some(PortName(a.rhs_name, "rhs", a.name)),
     lhs_val |-> IF a.lhs_val = None THEN None ELSE Some(np_full(a.shape, a.lhs_val[1])),
     rhs_val |-> IF a.rhs_val = None THEN None ELSE Some(np_full(a.shape, a.rhs_val[1])),
     use_mult |-> a.use_mult,
     mult_name |-> Some(PortName(a.mult_name, "mult", a.name)),
     mult_val |-> a.mult_val, normalize |-> a.normalize,
     shape |-> a.shape]

Put(f, k, v) == [x \in DOMAIN f \cup {k} |-> IF x = k THEN v ELSE f[x]]

\* Component.add_input: a port name already in use is refused
nb_add_input(c, name, val) ==
    IF c.err # "none" THEN c
    ELSE IF name \in DOMAIN c.inputs \/ name \in c.outputs THEN [c EXCEPT !.err = "ValueError"]
    ELSE [c EXCEPT !.inputs = Put(@, name, val)]

nb_declare_partials(c, of, wrt) ==
    IF c.err # "none" THEN c ELSE [c EXCEPT !.partials = @ \cup {<<of, wrt>>}]

nb_add_balance(c0, a) ==
    LET o == FinalOptions(a)
        \* line 125: self._state_vars[name] = options
        c1 == [c0 EXCEPT !.err = "none", !.state_vars = Put(@, a.name, RawOptions(a))]
        \* line 139: add_output refuses a name in use
        c2 == IF a.name \in c1.outputs \/ a.name \in DOMAIN c1.inputs
              THEN [c1 EXCEPT !.err = "ValueError"]
              ELSE [c1 EXCEPT !.outputs = @ \cup {a.name}]
        \* lines 142-144: the stored dict is updated in place
        c3 == IF c2.err # "none" THEN c2
              ELSE [c2 EXCEPT !.state_vars[a.name].lhs_name = o.lhs_name,
                              !.state_vars[a.name].rhs_name = o.rhs_name,
                              !.state_vars[a.name].mult_name = o.mult_name]
        c4 == IF a.lhs_val = None
              THEN nb_add_input(c3, o.lhs_name[1], np_ones(a.shape))
              ELSE IF c3.err # "none" THEN c3
              ELSE [c3 EXCEPT !.state_vars[a.name].lhs_val = o.lhs_val]
        c5 == IF a.rhs_val = None
              THEN nb_add_input(c4, o.rhs_name[1], np_ones(a.shape))
              ELSE IF c4.err # "none" THEN c4
              ELSE [c4 EXCEPT !.state_vars[a.name].rhs_val = o.rhs_val]
        c6 == IF a.use_mult
              THEN nb_add_input(c5, o.mult_name[1],
                                [dtype |-> "float", v |-> Full(a.shape, a.mult_val.q)])
              ELSE c5
        c7 == IF a.lhs_val = None THEN nb_declare_partials(c6, a.name, o.lhs_name[1]) ELSE c6
        c8 == IF a.rhs_val = None THEN nb_declare_partials(c7, a.name, o.rhs_name[1]) ELSE c7
    IN  IF a.use_mult THEN nb_declare_partials(c8, a.name, o.mult_name[1]) ELSE c8

(***************************************************************************)
(* NewBalanceComp.apply_nonlinear                                          *)
(***************************************************************************)
\* np.where(cs_abs(rhs) < 2)
idxs_nz(rhs) == {i \in 1..Len(rhs.v) : RLess(RAbs(rhs.v[i]), RInt(2))}

\* np.where(cs_abs(rhs) >= 2)
idxs_nnz(rhs) == {i \in 1..Len(rhs.v) : ~RLess(RAbs(rhs.v[i]), RInt(2))}

\* 1.0 / cs_abs(rhs[i])
ScaleFar(r) == RInv(RAbs(r))

\* 1.0 / (0.25 * rhs[i] ** 2 + 1)
ScaleNear(r) == RInv(RAdd(RMul(Rat(1, 4), RMul(r, r)), RInt(1)))

\* _scale_factor: ones of rhs's dtype, then the two indexed assignments
ScaleFactor(rhs, normalize) ==
    LET ones == Full(Len(rhs.v), RInt(1))
        s1 == [i \in 1..Len(rhs.v) |->
                 IF normalize /\ i \in idxs_nnz(rhs) THEN Cast(rhs.dtype, ScaleFar(rhs.v[i]))
                 ELSE ones[i]]
        s2 == [i \in 1..Len(rhs.v) |->
                 IF normalize /\ i \in idxs_nz(rhs) THEN Cast(rhs.dtype, ScaleNear(rhs.v[i]))
                 ELSE s1[i]]
    IN  s2

\* lhs of a state: the folded constant, else the port
LhsOf(options, inputs) ==
    IF options.lhs_val # None THEN options.lhs_val[1] ELSE inputs[options.lhs_name[1]]

RhsOf(options, inputs) ==
    IF options.rhs_val # None THEN options.rhs_val[1] ELSE inputs[options.rhs_name[1]]

\* a faulty residual that scales every element by the scale factor of the
\* first rhs element and drops the multiplier
Residual_FirstScale(options, inputs) ==
    LET lhs == LhsOf(options, inputs)
        rhs == RhsOf(options, inputs)
        sf == ScaleFactor(rhs, options.normalize)
    IN  [i \in 1..Len(rhs.v) |-> RMul(RSub(lhs.v[i], rhs.v[i]), sf[1])]

\* residuals[name] for one state
Residual(options, inputs) ==
    LET lhs == LhsOf(options, inputs)
        rhs == RhsOf(options, inputs)
        sf == ScaleFactor(rhs, options.normalize)
    IN  IF options.use_mult
        THEN LET mult == inputs[options.mult_name[1]]
             IN  [i \in 1..Len(rhs.v) |->
                     RMul(RSub(RMul(mult.v[i], lhs.v[i]), rhs.v[i]), sf[i])]
        ELSE [i \in 1..Len(rhs.v) |-> RMul(RSub(lhs.v[i], rhs.v[i]), sf[i])]

\* for name, options in self._state_vars.items(): residuals[name] = ...
apply_nonlinear(c, inputs) == [n \in DOMAIN c.state_vars |-> Residual(c.state_vars[n], inputs)]


(***************************************************************************)
(* NewBalanceComp: state and actions                                       *)
(***************************************************************************)
StateNames == {"x", "y"}

\* kwargs['shape']: every state is a vector of two elements
Shapes == {2}

BalanceArgs ==
    {[name |-> n, eq_units |-> "None", lhs_name |-> None, rhs_name |-> None,
      mult_name |-> None, lhs_val |-> l, rhs_val |-> r, use_mult |-> u,
      mult_val |-> PyFloat(1, 1), normalize |-> z, shape |-> sh] :
        n \in StateNames,
        l \in {None, Some(PyInt(10)), Some(PyFloat(5, 2))},
        r \in {None, Some(PyInt(10)), Some(PyFloat(10, 1)), Some(PyFloat(5, 2))},
        u \in BOOLEAN, z \in BOOLEAN, sh \in Shapes}

\* a vector whose first element is p[1] and whose other elements are p[2]
Vec(n, p) == [dtype |-> "float", v |-> [i \in 1..n |-> IF i = 1 THEN p[1] ELSE p[2]]]

LhsPairs == {<<RInt(10), RInt(10)>>, <<Rat(5, 2), Rat(5, 2)>>, <<RInt(5), RInt(10)>>, <<RInt(1), RInt(0)>>}

RhsPairs ==
    {<<RInt(10), RInt(10)>>, <<Rat(5, 2), Rat(5, 2)>>, <<RInt(0), RInt(2)>>,
     <<RInt(0 - 1), RInt(0 - 10)>>, <<RInt(2), RInt(1)>>}

MultPairs == {<<RInt(1), RInt(1)>>, <<RInt(2), RInt(1)>>}

\* the inputs vector in which every lhs port carries l, every rhs port r and
\* every multiplier port m, each cut to the shape of its port
InputsFor(c, l, r, m) ==
    [p \in DOMAIN c.inputs |->
        LET n == Len(c.inputs[p].v)
            isLhs == \E s \in DOMAIN c.state_vars : c.state_vars[s].lhs_name = Some(p)
            isRhs == \E s \in DOMAIN c.state_vars : c.state_vars[s].rhs_name = Some(p)
        IN  IF isLhs THEN Vec(n, l) ELSE IF isRhs THEN Vec(n, r) ELSE Vec(n, m)]

InitComp ==
    [state_vars |-> <<>>, outputs |-> {}, inputs |-> <<>>, partials |-> {}, err |-> "none"]

\* one call of add_balance; an exception ends model assembly
NBAddBalance ==
    /\ phase = "assemble"
    /\ comp.err = "none"
    /\ \E a \in BalanceArgs :
         /\ comp' = nb_add_balance(comp, a)
         /\ nb_call' = <<a>>
    /\ UNCHANGED <<phase, nb_inputs, residuals, jacobian, pairVars, sweepVars, cycleVars, scVars>>

\* Problem.setup: the vectors are allocated, ports hold their defaults
NBSetup ==
    /\ phase = "assemble"
    /\ comp.err = "none"
    /\ comp.state_vars # <<>>
    /\ phase' = "run"
    /\ nb_inputs' = comp.inputs
    /\ residuals' = [n \in DOMAIN comp.state_vars |-> Full(comp.state_vars[n].shape, RInt(0))]
    /\ UNCHANGED <<comp, nb_call, jacobian, pairVars, sweepVars, cycleVars, scVars>>

\* the solver calls apply_nonlinear with the current inputs
NBApplyNonlinear ==
    /\ phase \in {"run", "applied"}
    /\ \E l \in LhsPairs, r \in RhsPairs, m \in MultPairs :
         LET inputs == InputsFor(comp, l, r, m)
         IN  /\ nb_inputs' = inputs
             /\ residuals' = apply_nonlinear(comp, inputs)
    /\ phase' = "applied"
    /\ UNCHANGED <<comp, nb_call, jacobian, pairVars, sweepVars, cycleVars, scVars>>

NBNext == NBAddBalance \/ NBSetup \/ NBApplyNonlinear

(***************************************************************************)
(* NewBalanceComp.linearize.  The Jacobian is a function from the pairs    *)
(* <<state, port>> written so far to the vector written last.              *)
(***************************************************************************)
RNeg(a) == <<0 - a[1], a[2]>>

\* np.sign
RSign(a) == IF a[1] > 0 THEN RInt(1) ELSE IF a[1] < 0 THEN RInt(0 - 1) ELSE RInt(0)

\* -np.sign(rhs[i]) / rhs[i] ** 2
DScaleFar(r) == RMul(RNeg(RSign(r)), RInv(RMul(r, r)))

\* -0.5 * rhs[i] / (0.25 * rhs[i] ** 2 + 1) ** 2
DScaleNear(r) ==
    LET d == RAdd(RMul(Rat(1, 4), RMul(r, r)), RInt(1))
    IN  RMul(RMul(Rat(0 - 1, 2), r), RInv(RMul(d, d)))

\* a faulty derivative of the scale factor that drops the sign of rhs
DScaleDrhs_Unsigned(rhs, normalize) ==
    [i \in 1..Len(rhs.v) |->
        IF ~normalize THEN RInt(0)
        ELSE IF i \in idxs_nnz(rhs) THEN Cast(rhs.dtype, RNeg(RInv(RMul(rhs.v[i], rhs.v[i]))))
        ELSE Cast(rhs.dtype, DScaleNear(rhs.v[i]))]

\* _dscale_drhs: zeros of rhs's dtype, then the two indexed assignments
DScaleDrhs(rhs, normalize) ==
    [i \in 1..Len(rhs.v) |->
        IF ~normalize THEN RInt(0)
        ELSE IF i \in idxs_nnz(rhs) THEN Cast(rhs.dtype, DScaleFar(rhs.v[i]))
        ELSE Cast(rhs.dtype, DScaleNear(rhs.v[i]))]

\* a faulty linearize that writes no entry for the multiplier
WrittenSides_NoMult(options) ==
    (IF options.lhs_val = None THEN {"lhs"} ELSE {})
    \cup (IF options.rhs_val = None THEN {"rhs"} ELSE {})

\* the sides of a state for which linearize writes an entry
WrittenSides(options) ==
    (IF options.lhs_val = None THEN {"lhs"} ELSE {})
    \cup (IF options.rhs_val = None THEN {"rhs"} ELSE {})
    \cup (IF options.use_mult THEN {"mult"} ELSE {})

\* the port name of a side
SidePort(options, side) ==
    IF side = "lhs" THEN options.lhs_name[1]
    ELSE IF side = "rhs" THEN options.rhs_name[1]
    ELSE options.mult_name[1]

\* deriv_lhs, deriv_rhs and deriv_mult of one state
Deriv(options, inputs, side) ==
    LET lhs == LhsOf(options, inputs)
        rhs == RhsOf(options, inputs)
        sf == ScaleFactor(rhs, options.normalize)
        ds == DScaleDrhs(rhs, options.normalize)
        mult == [i \in 1..Len(rhs.v) |->
                    IF options.use_mult THEN inputs[options.mult_name[1]].v[i] ELSE RInt(1)]
    IN  [i \in 1..Len(rhs.v) |->
            IF side = "lhs" THEN RMul(mult[i], sf[i])
            ELSE IF side = "rhs"
                 THEN RSub(RMul(RSub(RMul(mult[i], lhs.v[i]), rhs.v[i]), ds[i]), sf[i])
            ELSE RMul(lhs.v[i], sf[i])]

\* the side written last to the port of a state: lhs, then rhs, then mult
LastSide(options, port) ==
    IF "mult" \in WrittenSides(options) /\ SidePort(options, "mult") = port THEN "mult"
    ELSE IF "rhs" \in WrittenSides(options) /\ SidePort(options, "rhs") = port THEN "rhs"
    ELSE "lhs"

\* the entries jacobian[name, port] one call of linearize writes
linearize(c, inputs) ==
    LET keys == {<<n, SidePort(c.state_vars[n], side)>> :
                    n \in DOMAIN c.state_vars, side \in {"lhs", "rhs", "mult"}}
        set_keys == {k \in keys :
                      \E side \in WrittenSides(c.state_vars[k[1]]) :
                          SidePort(c.state_vars[k[1]], side) = k[2]}
    IN  [k \in set_keys |->
            Deriv(c.state_vars[k[1]], inputs, LastSide(c.state_vars[k[1]], k[2]))]

\* add_balance calls that name the ports themselves or leave the names to
\* add_balance
NamedBalanceArgs ==
    {[name |-> n, eq_units |-> "None",
      lhs_name |-> IF g THEN Some("p") ELSE None,
      rhs_name |-> IF g THEN Some("q") ELSE None,
      mult_name |-> IF g THEN Some("m") ELSE None,
      lhs_val |-> l, rhs_val |-> r, use_mult |-> u,
      mult_val |-> PyFloat(1, 1), normalize |-> z, shape |-> sh] :
        n \in StateNames, g \in BOOLEAN,
        l \in {None, Some(PyFloat(5, 2))},
        r \in {None, Some(PyInt(10))},
        u \in BOOLEAN, z \in BOOLEAN, sh \in Shapes}

\* one call of add_balance with or without port names
NBAddBalanceNamed ==
    /\ phase = "assemble"
    /\ comp.err = "none"
    /\ \E a \in NamedBalanceArgs :
         /\ comp' = nb_add_balance(comp, a)
         /\ nb_call' = <<a>>
    /\ UNCHANGED <<phase, nb_inputs, residuals, jacobian, pairVars, sweepVars, cycleVars, scVars>>

\* the solver calls linearize with the current inputs
NBLinearize ==
    /\ phase \in {"run", "linearized"}
    /\ \E l \in {<<RInt(5), RInt(10)>>, <<RInt(1), RInt(0)>>}, r \in RhsPairs, m \in MultPairs :
         LET inputs == InputsFor(comp, l, r, m)
         IN  /\ nb_inputs' = inputs
             /\ jacobian' = linearize(comp, inputs) @@ jacobian
    /\ phase' = "linearized"
    /\ UNCHANGED <<comp, nb_call, residuals, pairVars, sweepVars, cycleVars, scVars>>

JacNext == NBAddBalanceNamed \/ NBSetup \/ NBLinearize

(***************************************************************************)
(* Meaning of an equation side as written: every variable token stands for *)
(* the value env gives it.  Used to state the claims, not by the program.  *)
(***************************************************************************)
RECURSIVE RefLexFrom(_, _)
RefLexFrom(s, i) ==
    IF i > Len(s) THEN <<>>
    ELSE IF s[i] = " " THEN RefLexFrom(s, i + 1)
    ELSE IF IsIdStart(s[i]) /\ Boundary(s, i - 1)
         THEN LET k == BackToBoundary(s, RunEnd(s, i))
              IN  <<Tok("var", SubSeq(s, i, k))>> \o RefLexFrom(s, k + 1)
    ELSE IF s[i] \in Digits
         THEN LET j == DigitEnd(s, i)
              IN  IF j + 3 <= Len(s) /\ s[j + 1] = "." /\ s[j + 2] = "e" /\ s[j + 3] \in Digits
                  \* the float literal <digits>.e<digits>, written out as an integer
                  THEN LET k == DigitEnd(s, j + 3)
                       IN  <<Tok("num", SubSeq(s, i, j) \o Full(NumVal(SubSeq(s, j + 3, k)), "0"))>>
                               \o RefLexFrom(s, k + 1)
                  ELSE <<Tok("num", SubSeq(s, i, j))>> \o RefLexFrom(s, j + 1)
    ELSE <<Tok("op", <<s[i]>>)>> \o RefLexFrom(s, i + 1)

ValueOf(text, env) ==
    LET t == RefLexFrom(text, 1)
        r == PExpr(t, 1, env)
    IN  IF r.ok /\ r.pos = Len(t) + 1
        THEN [ok |-> TRUE, val |-> r.val]
        ELSE [ok |-> FALSE, val |-> 0]

(***************************************************************************)
(* Evaluation of the assembled group for the current signal values         *)
(***************************************************************************)
PromotedOutputs(g) == {p[2] : p \in g.producers}

\* src names an output of some unit of the group
OutputExists(g, src) ==
    \/ src \in PromotedOutputs(g)
    \/ \E d \in DOMAIN g.depUnits : src = d \o T_residual
    \/ \E n \in DOMAIN g.balStates : src = T_balance_ \o n

\* Problem.setup accepts the group: every connection starts at an output and
\* no promoted name has two producers
SetupOK(g) ==
    /\ g.err = "none"
    /\ \A tgt \in DOMAIN g.connections : OutputExists(g, g.connections[tgt])
    /\ \A p, q \in g.producers : p[2] = q[2] => p = q

\* value at an input of a DependentComponent: its source, else the default 0.0
DepInputs(g, d) ==
    [in \in g.depUnits[d].inputs |->
        LET tgt == d \o <<".">> \o in
        IN  IF tgt \in DOMAIN g.connections /\ g.connections[tgt] \in DOMAIN g.sigval
            THEN g.sigval[g.connections[tgt]]
            ELSE 0]

DepResidual(g, d) == Compute(g.depUnits[d], DepInputs(g, d))

\* residual of balance state n of om.BalanceComp (normalize on, no multiplier):
\* lhs port from the residual unit, rhs port from its source, else rhs_val = 0
BalanceResidual(g, n) ==
    LET lhsT == T_balance_ \o T_lhs_ \o n
        rhsT == T_balance_ \o T_rhs_ \o n
        d == SubSeq(g.connections[lhsT], 1, Len(g.connections[lhsT]) - Len(T_residual))
        lhs == DepResidual(g, d)
        rhs == IF rhsT \in DOMAIN g.connections /\ g.connections[rhsT] \in DOMAIN g.sigval
               THEN g.sigval[g.connections[rhsT]] ELSE 0
    IN  IF SetupOK(g) /\ lhsT \in DOMAIN g.connections /\ d \in DOMAIN g.depUnits /\ lhs.ok
        THEN [ok |-> TRUE, val |-> RMul(RInt(lhs.val - rhs), ScaleFactor(np_full(1, PyFloat(rhs, 1)), TRUE)[1])]
        ELSE [ok |-> FALSE, val |-> RInt(0)]

\* the signal a variable token of an equation refers to: the promoted output
\* of that name, or the constant source created for it
SignalOf(g, var) == IF var \in DOMAIN g.sigval THEN var ELSE VarName(var)

\* the current values of the signals an equation refers to
EnvOf(g, dep) ==
    [v \in {w \in AllVars(dep.eq_lhs, dep.eq_rhs) : SignalOf(g, w) \in DOMAIN g.sigval} |->
        g.sigval[SignalOf(g, v)]]


(***************************************************************************)
(* The sweep over the input table: run.main, run_simulations,              *)
(* set_model_inputs, collect_outputs and generate_outputs.  A cell of the  *)
(* table is None when blank (NaN) and Some(q) when it holds the number q.  *)
(***************************************************************************)
\* the registry of set_model_inputs: column -> model variable and default
variable_definitions ==
    ("LP_Nmech_DES" :> [actual_variable |-> "DESIGN.LP_Nmech", default |-> RInt(5000)]) @@
    ("HP_Nmech_DES" :> [actual_variable |-> "DESIGN.HP_Nmech", default |-> RInt(15000)])

\* the values the Problem holds when prob.setup() returns: the
\* set_input_defaults of the engine model
SetupValues ==
    ("DESIGN.LP_Nmech" :> Rat(46661, 10)) @@ ("DESIGN.HP_Nmech" :> Rat(147057, 10))

\* the column whose registry entry names the variable v
ColumnOf(v) == CHOOSE c \in DOMAIN variable_definitions : variable_definitions[c].actual_variable = v

\* the values of the Problem after the registry loop: a present, non-blank
\* cell is set, a missing column (KeyError) sets the default, a blank cell
\* sets nothing
set_model_inputs(values, row) ==
    [v \in DOMAIN values |->
        LET col_name == ColumnOf(v)
        IN  IF col_name \in DOMAIN row
            THEN IF row[col_name] # None THEN row[col_name][1] ELSE values[v]
            ELSE variable_definitions[col_name].default]

\* the dict collect_outputs builds from the solved Problem
collect_outputs_CaseOne(p, case_number) ==
    [CASE |-> 1, problem |-> p.serial, outputs |-> p.values]

collect_outputs(p, case_number) ==
    [CASE |-> case_number, problem |-> p.serial, outputs |-> p.values]

MaxRows == 2

\* the tables read_csv can return: some of the registry's columns, up to
\* MaxRows rows, the index 0..n-1
InputTables ==
    UNION {{[columns |-> cs, rows |-> rs] : rs \in [1..n -> [cs -> {None, Some(RInt(5200))}]]} :
              cs \in SUBSET DOMAIN variable_definitions, n \in 0..MaxRows}

\* run_simulations: input_data = read_input_csv(...); all_results = []
ReadInputCsv ==
    /\ sweep_pc = "start"
    /\ input_data' \in InputTables
    /\ all_results' = <<>>
    /\ row_i' = 0
    /\ sweep_pc' = "loop"
    /\ UNCHANGED <<prob, nprob, written, pairVars, nbVars, cycleVars, scVars>>

\* the for loop takes the next row: prob = Problem(); prob.setup()
NewProblem ==
    /\ sweep_pc = "loop"
    /\ row_i < Len(input_data.rows)
    /\ nprob' = nprob + 1
    /\ prob' = [serial |-> nprob + 1, values |-> SetupValues]
    /\ sweep_pc' = "set_inputs"
    /\ UNCHANGED <<input_data, row_i, all_results, written, pairVars, nbVars, cycleVars, scVars>>

\* set_model_inputs(prob, row)
SetModelInputs ==
    /\ sweep_pc = "set_inputs"
    /\ prob' = [prob EXCEPT !.values = set_model_inputs(@, input_data.rows[row_i + 1])]
    /\ sweep_pc' = "run"
    /\ UNCHANGED <<input_data, row_i, nprob, all_results, written, pairVars, nbVars, cycleVars, scVars>>

\* prob.run_model() for the design point and the part power points; the
\* Newton solver has err_on_non_converge set, so a case that does not
\* converge raises, and nothing in run_simulations or main catches it
RunModel ==
    /\ sweep_pc = "run"
    /\ \E converged \in BOOLEAN :
          sweep_pc' = IF converged THEN "collect" ELSE "raised"
    /\ UNCHANGED <<input_data, row_i, prob, nprob, all_results, written, pairVars, nbVars, cycleVars, scVars>>

\* outputs = collect_outputs(prob, index + 1); all_results.append(outputs)
CollectOutputs ==
    /\ sweep_pc = "collect"
    /\ all_results' = Append(all_results, collect_outputs(prob, row_i + 1))
    /\ row_i' = row_i + 1
    /\ sweep_pc' = "loop"
    /\ UNCHANGED <<input_data, prob, nprob, written, pairVars, nbVars, cycleVars, scVars>>

\* the loop is exhausted: return all_results
ReturnResults ==
    /\ sweep_pc = "loop"
    /\ row_i = Len(input_data.rows)
    /\ sweep_pc' = "returned"
    /\ UNCHANGED <<input_data, row_i, prob, nprob, all_results, written, pairVars, nbVars, cycleVars, scVars>>

\* main: generate_outputs(simulation_results, ...) writes one line per result
GenerateOutputs ==
    /\ sweep_pc = "returned"
    /\ written' = Some(all_results)
    /\ sweep_pc' = "written"
    /\ UNCHANGED <<input_data, row_i, prob, nprob, all_results, pairVars, nbVars, cycleVars, scVars>>

SweepNext ==
    \/ ReadInputCsv
    \/ NewProblem
    \/ SetModelInputs
    \/ RunModel
    \/ CollectOutputs
    \/ ReturnResults
    \/ GenerateOutputs

(***************************************************************************)
(* HBTF.setup: the balance pairs of one operating point, with the texts of *)
(* the engine model written character by character.                        *)
(***************************************************************************)
\* design: Dependent_Fn_DES, Independent_W
Pair_Fn_DES ==
    [dep |->
    [name |-> <<"F", "n", "_", "D", "E", "S">>, eq_lhs |-> <<"p", "e", "r", "f", ".", "F", "n">>,
     eq_rhs |-> <<"F", "n", "_", "D", "E", "S">>, value_rhs |-> None, eq_units |-> "lbf",
     interconnect_rhs |-> FALSE, promotion_lhs |-> None],
     indep |->
    [name |-> <<"W">>, varName |-> <<"f", "c", ".", "W">>, units |-> "lbm/s",
     val |-> None, lower |-> None, upper |-> None]]

\* design: Dependent_T4_MAX, Independent_FAR
Pair_T4_MAX ==
    [dep |->
    [name |-> <<"T", "4", "_", "M", "A", "X">>, eq_lhs |-> <<"b", "u", "r", "n", "e", "r", ".", "F", "l", "_", "O", ":", "t", "o", "t", ":", "T">>,
     eq_rhs |-> <<"T", "4", "_", "M", "A", "X">>, value_rhs |-> None, eq_units |-> "degR",
     interconnect_rhs |-> FALSE, promotion_lhs |-> None],
     indep |->
    [name |-> <<"F", "A", "R">>, varName |-> <<"b", "u", "r", "n", "e", "r", ".", "F", "l", "_", "I", ":", "F", "A", "R">>, units |-> "None",
     val |-> None, lower |-> None, upper |-> None]]

\* design: Dependent_lp_pwr_diff_new, Independent_lpt_PR
Pair_lp_pwr_diff ==
    [dep |->
    [name |-> <<"l", "p", "_", "p", "w", "r", "_", "d", "i", "f", "f">>, eq_lhs |-> <<"l", "p", "_", "s", "h", "a", "f", "t", ".", "p", "w", "r", "_", "i", "n", "_", "r", "e", "a", "l">> \o <<" ", "+", " ">> \o <<"l", "p", "_", "s", "h", "a", "f", "t", ".", "p", "w", "r", "_", "o", "u", "t", "_", "r", "e", "a", "l">>,
     eq_rhs |-> <<"l", "p", "_", "p", "o", "w", "e", "r", "_", "d", "i", "f", "f">>, value_rhs |-> None, eq_units |-> "hp",
     interconnect_rhs |-> FALSE, promotion_lhs |-> None],
     indep |->
    [name |-> <<"l", "p", "t", "_", "P", "R">>, varName |-> <<"l", "p", "t", ".", "P", "R">>, units |-> "None",
     val |-> Some(Rat(3, 2)), lower |-> Some(Rat(1001, 1000)), upper |-> Some(Rat(16, 1))]]

\* design: Dependent_hp_pwr_diff_new, Independent_hpt_PR
Pair_hp_pwr_diff ==
    [dep |->
    [name |-> <<"h", "p", "_", "p", "w", "r", "_", "d", "i", "f", "f">>, eq_lhs |-> <<"h", "p", "_", "s", "h", "a", "f", "t", ".", "p", "w", "r", "_", "i", "n", "_", "r", "e", "a", "l">> \o <<" ", "+", " ">> \o <<"h", "p", "_", "s", "h", "a", "f", "t", ".", "p", "w", "r", "_", "o", "u", "t", "_", "r", "e", "a", "l">>,
     eq_rhs |-> <<"h", "p", "_", "p", "o", "w", "e", "r", "_", "d", "i", "f", "f">>, value_rhs |-> None, eq_units |-> "hp",
     interconnect_rhs |-> FALSE, promotion_lhs |-> None],
     indep |->
    [name |-> <<"h", "p", "t", "_", "P", "R">>, varName |-> <<"h", "p", "t", ".", "P", "R">>, units |-> "None",
     val |-> Some(Rat(3, 2)), lower |-> Some(Rat(1001, 1000)), upper |-> Some(Rat(8, 1))]]

\* off-design, throttle_mode T4: Dependent_T4_MAX_OFFDES, Independent_FAR
Pair_T4_MAX_OFFDES ==
    [dep |->
    [name |-> <<"T", "4", "_", "M", "A", "X", "_", "O", "F", "F", "D", "E", "S">>, eq_lhs |-> <<"b", "u", "r", "n", "e", "r", ".", "F", "l", "_", "O", ":", "t", "o", "t", ":", "T">>,
     eq_rhs |-> <<"T", "4", "_", "M", "A", "X">>, value_rhs |-> None, eq_units |-> "degR",
     interconnect_rhs |-> FALSE, promotion_lhs |-> None],
     indep |->
    [name |-> <<"F", "A", "R">>, varName |-> <<"b", "u", "r", "n", "e", "r", ".", "F", "l", "_", "I", ":", "F", "A", "R">>, units |-> "None",
     val |-> Some(Rat(17, 1000)), lower |-> Some(Rat(1, 10000)), upper |-> Some(Rat(1, 1))]]

\* off-design, throttle_mode percent_thrust: Dependent_Fn_OFFDES,
\* Independent_FAR_OFFDES
Pair_Fn_OFFDES ==
    [dep |->
    [name |-> <<"F", "n", "_", "O", "F", "F", "D", "E", "S">>, eq_lhs |-> <<"p", "e", "r", "f", ".", "F", "n">>,
     eq_rhs |-> <<"F", "n", "_", "T", "a", "r", "g", "e", "t">>, value_rhs |-> None, eq_units |-> "lbf",
     interconnect_rhs |-> FALSE, promotion_lhs |-> None],
     indep |->
    [name |-> <<"F", "A", "R">>, varName |-> <<"b", "u", "r", "n", "e", "r", ".", "F", "l", "_", "I", ":", "F", "A", "R">>, units |-> "None",
     val |-> Some(Rat(17, 1000)), lower |-> Some(Rat(1, 10000)), upper |-> Some(Rat(1, 1))]]

\* off-design: Dependent_core_nozz_Throat_stat_area, Independent_W
Pair_core_nozz ==
    [dep |->
    [name |-> <<"c", "o", "r", "e", "_", "n", "o", "z", "z", "_", "T", "h", "r", "o", "a", "t", "_", "s", "t", "a", "t", "_", "a", "r", "e", "a">>, eq_lhs |-> <<"c", "o", "r", "e", "_", "n", "o", "z", "z", ".", "T", "h", "r", "o", "a", "t", ":", "s", "t", "a", "t", ":", "a", "r", "e", "a">>,
     eq_rhs |-> <<"r", "h", "s", "_", "z", "e", "r", "o", "_", "c", "o", "r", "e", "_", "n", "o", "z", "z", "_", "T", "h", "r", "o", "a", "t", "_", "s", "t", "a", "t", "_", "a", "r", "e", "a">>, value_rhs |-> None, eq_units |-> "inch**2",
     interconnect_rhs |-> FALSE, promotion_lhs |-> None],
     indep |->
    [name |-> <<"W">>, varName |-> <<"f", "c", ".", "W">>, units |-> "lbm/s",
     val |-> Some(Rat(100, 1)), lower |-> Some(Rat(10, 1)), upper |-> Some(Rat(1000, 1))]]

\* off-design: Dependent_byp_nozz_Throat_stat_area, Independent_BPR
Pair_byp_nozz ==
    [dep |->
    [name |-> <<"b", "y", "p", "_", "n", "o", "z", "z", "_", "T", "h", "r", "o", "a", "t", "_", "s", "t", "a", "t", "_", "a", "r", "e", "a">>, eq_lhs |-> <<"b", "y", "p", "_", "n", "o", "z", "z", ".", "T", "h", "r", "o", "a", "t", ":", "s", "t", "a", "t", ":", "a", "r", "e", "a">>,
     eq_rhs |-> <<"r", "h", "s", "_", "z", "e", "r", "o", "_", "b", "y", "p", "_", "n", "o", "z", "z", "_", "T", "h", "r", "o", "a", "t", "_", "s", "t", "a", "t", "_", "a", "r", "e", "a">>, value_rhs |-> None, eq_units |-> "inch**2",
     interconnect_rhs |-> FALSE, promotion_lhs |-> None],
     indep |->
    [name |-> <<"B", "P", "R">>, varName |-> <<"s", "p", "l", "i", "t", "t", "e", "r", ".", "B", "P", "R">>, units |-> "None",
     val |-> Some(Rat(2, 1)), lower |-> Some(Rat(1, 1)), upper |-> Some(Rat(10, 1))]]

\* off-design: Dependent_lp_shaft_pwr_net, Independent_lp_Nmech
Pair_lp_shaft ==
    [dep |->
    [name |-> <<"l", "p", "_", "s", "h", "a", "f", "t", "_", "p", "w", "r", "_", "i", "n", "_", "r", "e", "a", "l">>, eq_lhs |-> <<"l", "p", "_", "s", "h", "a", "f", "t", ".", "p", "w", "r", "_", "i", "n", "_", "r", "e", "a", "l">> \o <<" ", "+", " ">> \o <<"l", "p", "_", "s", "h", "a", "f", "t", ".", "p", "w", "r", "_", "o", "u", "t", "_", "r", "e", "a", "l">>,
     eq_rhs |-> <<"l", "p", "_", "p", "o", "w", "e", "r", "_", "d", "i", "f", "f">>, value_rhs |-> None, eq_units |-> "hp",
     interconnect_rhs |-> FALSE, promotion_lhs |-> None],
     indep |->
    [name |-> <<"l", "p", "_", "N", "m", "e", "c", "h">>, varName |-> <<"L", "P", "_", "N", "m", "e", "c", "h">>, units |-> "rpm",
     val |-> Some(Rat(3, 2)), lower |-> Some(Rat(500, 1)), upper |-> None]]

\* off-design: Dependent_hp_shaft_pwr_net, Independent_hp_Nmech
Pair_hp_shaft ==
    [dep |->
    [name |-> <<"h", "p", "_", "s", "h", "a", "f", "t", "_", "p", "w", "r", "_", "i", "n", "_", "r", "e", "a", "l">>, eq_lhs |-> <<"h", "p", "_", "s", "h", "a", "f", "t", ".", "p", "w", "r", "_", "i", "n", "_", "r", "e", "a", "l">> \o <<" ", "+", " ">> \o <<"h", "p", "_", "s", "h", "a", "f", "t", ".", "p", "w", "r", "_", "o", "u", "t", "_", "r", "e", "a", "l">>,
     eq_rhs |-> <<"h", "p", "_", "p", "o", "w", "e", "r", "_", "d", "i", "f", "f">>, value_rhs |-> None, eq_units |-> "hp",
     interconnect_rhs |-> FALSE, promotion_lhs |-> None],
     indep |->
    [name |-> <<"h", "p", "_", "N", "m", "e", "c", "h">>, varName |-> <<"H", "P", "_", "N", "m", "e", "c", "h">>, units |-> "rpm",
     val |-> Some(Rat(3, 2)), lower |-> Some(Rat(500, 1)), upper |-> None]]

\* a faulty off-design branch that makes the calls of both throttle modes
OffDesignPairs_BothThrottleModes(throttle_mode) ==
    <<Pair_T4_MAX_OFFDES, Pair_Fn_OFFDES, Pair_core_nozz, Pair_byp_nozz, Pair_lp_shaft, Pair_hp_shaft>>

\* the addPair calls of the off-design branch, in order
OffDesignPairs(throttle_mode) ==
    (IF throttle_mode = "T4" THEN <<Pair_T4_MAX_OFFDES>>
     ELSE IF throttle_mode = "percent_thrust" THEN <<Pair_Fn_OFFDES>>
     ELSE <<>>)
    \o <<Pair_core_nozz, Pair_byp_nozz, Pair_lp_shaft, Pair_hp_shaft>>

SetupPairs(point) == IF point = "design" THEN <<Pair_Fn_DES, Pair_T4_MAX, Pair_lp_pwr_diff, Pair_hp_pwr_diff>> ELSE OffDesignPairs(point)

\* the outputs of the elements of the cycle that the equations name
CycleSignals ==
    (<<"p", "e", "r", "f", ".", "F", "n">> :> 5) @@ (<<"b", "u", "r", "n", "e", "r", ".", "F", "l", "_", "O", ":", "t", "o", "t", ":", "T">> :> 6) @@
    (<<"l", "p", "_", "s", "h", "a", "f", "t", ".", "p", "w", "r", "_", "i", "n", "_", "r", "e", "a", "l">> :> 4) @@ (<<"l", "p", "_", "s", "h", "a", "f", "t", ".", "p", "w", "r", "_", "o", "u", "t", "_", "r", "e", "a", "l">> :> 0 - 4) @@
    (<<"h", "p", "_", "s", "h", "a", "f", "t", ".", "p", "w", "r", "_", "i", "n", "_", "r", "e", "a", "l">> :> 7) @@ (<<"h", "p", "_", "s", "h", "a", "f", "t", ".", "p", "w", "r", "_", "o", "u", "t", "_", "r", "e", "a", "l">> :> 0 - 7) @@
    (<<"c", "o", "r", "e", "_", "n", "o", "z", "z", ".", "T", "h", "r", "o", "a", "t", ":", "s", "t", "a", "t", ":", "a", "r", "e", "a">> :> 2) @@ (<<"b", "y", "p", "_", "n", "o", "z", "z", ".", "T", "h", "r", "o", "a", "t", ":", "s", "t", "a", "t", ":", "a", "r", "e", "a">> :> 1)

\* the element that computes an output: the text before the first "."
RECURSIVE ElementOf(_, _)
ElementOf(path, i) == IF path[i] = "." THEN SubSeq(path, 1, i - 1) ELSE ElementOf(path, i + 1)

\* the cycle when the balance component has been added and no pair yet
CycleGraph ==
    [subsystems  |-> {T_balance, <<"f", "c">>, <<"b", "u", "r", "n", "e", "r">>, <<"s", "p", "l", "i", "t", "t", "e", "r">>, <<"l", "p", "t">>, <<"h", "p", "t">>, <<"l", "p", "_", "s", "h", "a", "f", "t">>,
                      <<"h", "p", "_", "s", "h", "a", "f", "t">>, <<"c", "o", "r", "e", "_", "n", "o", "z", "z">>, <<"b", "y", "p", "_", "n", "o", "z", "z">>, <<"p", "e", "r", "f">>},
     depUnits    |-> <<>>,
     producers   |-> {<<ElementOf(n, 1), n>> : n \in DOMAIN CycleSignals},
     sigval      |-> CycleSignals,
     connections |-> <<>>,
     balStates   |-> <<>>,
     balInputs   |-> <<>>,
     err         |-> "none"]

\* HBTF.setup is entered for one operating point: the elements and the
\* balance component are added
CycleSetup ==
    /\ cycle_point = "none"
    /\ \E point \in {"design", "T4", "percent_thrust"} : cycle_point' = point
    /\ cycle' = CycleGraph
    /\ cycle_calls' = <<>>
    /\ UNCHANGED <<pairVars, nbVars, sweepVars, scVars>>

\* the next addPair call of the branch; an exception ends setup
CycleAddPair ==
    /\ cycle_point # "none"
    /\ cycle.err = "none"
    /\ Len(cycle_calls) < Len(SetupPairs(cycle_point))
    /\ LET pair == SetupPairs(cycle_point)[Len(cycle_calls) + 1]
       IN  \E order \in Orders(AllVars(pair.dep.eq_lhs, pair.dep.eq_rhs)) :
              /\ cycle' = addPair(cycle, pair.dep, pair.indep, order)
              /\ cycle_calls' = Append(cycle_calls, [dep |-> pair.dep, indep |-> pair.indep, order |-> order])
    /\ UNCHANGED <<cycle_point, pairVars, nbVars, sweepVars, scVars>>

CycleNext == CycleSetup \/ CycleAddPair

(***************************************************************************)
(* solver_converter.py: SolverConverter.  The model the converter wires is *)
(* the record [balances, subsystems, connections, err].                    *)
(***************************************************************************)
\* a value of eq_rhs that is neither a number nor a str, such as None
PyNoValue == <<"#", "N">>

\* isinstance(x, (int, float, complex))
IsNumber(x) == ~IsStr(x) /\ x # PyNoValue

\* _parse_expression: re.findall(r'[A-Za-z_][A-Za-z0-9_]*', expr), the list
\* of matches from position i on
RECURSIVE ParseFrom(_, _)
ParseFrom(expr, i) ==
    IF i > Len(expr) THEN <<>>
    ELSE IF IsIdStart(expr[i])
         THEN <<SubSeq(expr, i, WordEnd(expr, i))>> \o ParseFrom(expr, WordEnd(expr, i) + 1)
         ELSE ParseFrom(expr, i + 1)

parse_expression(expr) == ParseFrom(expr, 1)

\* self.balance.add_balance(name=..., val=..., lower=..., upper=..., units=...)
sc_add_balance(m, name, options) ==
    IF m.err # "none" THEN m
    ELSE IF name \in DOMAIN m.balances THEN [m EXCEPT !.err = "ValueError"]
    ELSE [m EXCEPT !.balances = (name :> options) @@ @]

\* for var in vars: self.model.connect(var, f'{exec_comp_name}.{var_exec}')
RECURSIVE ConnectAll(_, _, _, _)
ConnectAll(m, vs, exec_comp_name, i) ==
    IF i > Len(vs) \/ m.err # "none" THEN m
    ELSE ConnectAll(connect(m, vs[i], exec_comp_name \o <<".">> \o ReplaceChar(vs[i], ".", "_")),
                    vs, exec_comp_name, i + 1)

\* the wiring of one side given as an expression: a single variable is
\* connected to the port, anything else goes through an ExecComp
WireExpression(m, expr, balance_name, port, comp_suffix, out_suffix) ==
    LET vs == parse_expression(expr)
        exec_comp_name == balance_name \o comp_suffix
    IN  IF m.err # "none" THEN m
        ELSE IF Len(vs) = 1 THEN connect(m, vs[1], T_balance_ \o port \o balance_name)
        ELSE connect(ConnectAll(add_subsystem(m, exec_comp_name), vs, exec_comp_name, 1),
                     balance_name \o out_suffix, T_balance_ \o port \o balance_name)

\* the rhs of one pair: a number gets an IndepVarComp, a str is wired as an
\* expression, anything else raises TypeError
WireRhs(m, eq_rhs, balance_name) ==
    IF m.err # "none" THEN m
    ELSE IF IsNumber(eq_rhs)
         THEN connect(add_subsystem(m, balance_name \o <<"_", "r", "h", "s", "_", "c", "o", "n", "s", "t">>),
                      balance_name \o <<"_", "r", "h", "s">>, T_balance_ \o T_rhs_ \o balance_name)
    ELSE IF IsStr(eq_rhs)
         THEN WireExpression(m, eq_rhs, balance_name, T_rhs_, <<"_", "r", "h", "s", "_", "c", "o", "m", "p">>, <<"_", "r", "h", "s">>)
    ELSE [m EXCEPT !.err = "TypeError"]

\* the body of the loop of setup_solver for one pair
SetupPair(m, indep, dep) ==
    LET balance_name == indep.name
        m1 == sc_add_balance(m, balance_name,
                             [val |-> IF indep.val # None THEN indep.val[1] ELSE RInt(1),
                              lower |-> indep.lower, upper |-> indep.upper, units |-> indep.units])
        m2 == connect(m1, T_balance_ \o balance_name, indep.var_name)
        m3 == WireExpression(m2, dep.eq_lhs, balance_name, T_lhs_, <<"_", "l", "h", "s", "_", "c", "o", "m", "p">>, <<"_", "l", "h", "s">>)
    IN  WireRhs(m3, dep.eq_rhs, balance_name)

\* for indep, dep in zip(self.independents, self.dependents)
RECURSIVE SetupPairsFrom(_, _, _, _)
SetupPairsFrom(m, independents, dependents, i) ==
    IF i > Len(independents) \/ m.err # "none" THEN m
    ELSE SetupPairsFrom(SetupPair(m, independents[i], dependents[i]), independents, dependents, i + 1)

setup_solver(m, independents, dependents) ==
    IF Len(independents) # Len(dependents) THEN [m EXCEPT !.err = "ValueError"]
    ELSE SetupPairsFrom(m, independents, dependents, 1)

MaxVars == 2

IndependentVariables ==
    {[name |-> n, var_name |-> <<"v">> \o n, units |-> "None", lower |-> None, upper |-> None,
      val |-> v] : n \in {<<"A">>, <<"B">>}, v \in {None, Some(Rat(5, 2))}}

DependentVariables ==
    {[name |-> <<"D">>, eq_lhs |-> l, eq_rhs |-> r, eq_units |-> "None"] :
        l \in {<<"x">>, <<"x", " ", "/", " ", "y">>}, r \in {PyNumber(<<"2", "7", "5", "0">>), <<"z">>, <<"z", " ", "-", " ", "w">>, PyNoValue}}

\* the model of the usage example: the balance component is its only subsystem
InitModel ==
    [balances |-> <<>>, subsystems |-> {T_balance}, connections |-> <<>>, err |-> "none"]

\* converter.add_independent(...)
SCAddIndependent ==
    /\ sc_pc = "define"
    /\ Len(sc_independents) < MaxVars
    /\ \E indep \in IndependentVariables : sc_independents' = Append(sc_independents, indep)
    /\ UNCHANGED <<sc_dependents, sc_model, sc_pc, pairVars, nbVars, sweepVars, cycleVars>>

\* converter.add_dependent(...)
SCAddDependent ==
    /\ sc_pc = "define"
    /\ Len(sc_dependents) < MaxVars
    /\ \E dep \in DependentVariables : sc_dependents' = Append(sc_dependents, dep)
    /\ UNCHANGED <<sc_independents, sc_model, sc_pc, pairVars, nbVars, sweepVars, cycleVars>>

\* converter.setup_solver()
SCSetupSolver ==
    /\ sc_pc = "define"
    /\ sc_model' = setup_solver(sc_model, sc_independents, sc_dependents)
    /\ sc_pc' = "done"
    /\ UNCHANGED <<sc_independents, sc_dependents, pairVars, nbVars, sweepVars, cycleVars>>

SCNext == SCAddIndependent \/ SCAddDependent \/ SCSetupSolver

(***************************************************************************)
(* Specifications                                                          *)
(***************************************************************************)
\* the group before the first addPair, the component before the first
\* add_balance and main before it calls run_simulations
Init ==
    /\ graph = InitGraph
    /\ calls = <<>>
    /\ ncalls = 0
    /\ nsets = 0
    /\ comp = InitComp
    /\ nb_call = <<>>
    /\ phase = "assemble"
    /\ nb_inputs = <<>>
    /\ residuals = <<>>
    /\ jacobian = <<>>
    /\ sweep_pc = "start"
    /\ input_data = [columns |-> {}, rows |-> <<>>]
    /\ row_i = 0
    /\ prob = [serial |-> 0, values |-> SetupValues]
    /\ nprob = 0
    /\ all_results = <<>>
    /\ written = None
    /\ cycle_point = "none"
    /\ cycle = CycleGraph
    /\ cycle_calls = <<>>
    /\ sc_independents = <<>>
    /\ sc_dependents = <<>>
    /\ sc_model = InitModel
    /\ sc_pc = "define"

\* assembly of a group by addPair
Spec == Init /\ [][Next]_vars

\* assembly and evaluation of a NewBalanceComp
SpecBalance == Init /\ [][NBNext]_vars

\* assembly of a NewBalanceComp with named ports and its linearization
SpecJacobian == Init /\ [][JacNext]_vars

\* one run of main over an input table
SpecSweep == Init /\ [][SweepNext]_vars

\* HBTF.setup for one operating point
SpecCycle == Init /\ [][CycleNext]_vars

\* a SolverConverter: definitions, then setup_solver
SpecSolver == Init /\ [][SCNext]_vars


(***************************************************************************)
(* Claims about balance_setup.py, stated for Spec                          *)
(***************************************************************************)
LastCall == calls[Len(calls)]

\* the last addPair call returned normally
Returned == calls # <<>> /\ graph.err = "none"

\* values given to the inputs of a residual unit
EnvVals == {3, 4}

\* the inputs vector in which every variable token is read from its own input
InputsOf(unit, vs, env) == [n \in unit.inputs |-> env[CHOOSE v \in vs : VarName(v) = n]]

\* C1: for every equation and every assignment to its variable tokens, the
\* unit built by create_component computes value(lhs) - value(rhs), whatever
\* the order in which the variable set was iterated.
C1_ResidualIsLhsMinusRhs ==
    Returned =>
        LET dep == LastCall.dep
            vs == AllVars(dep.eq_lhs, dep.eq_rhs)
            unit == graph.depUnits[DepCompName(dep)]
        IN  \A env \in [vs -> EnvVals] :
                Compute(unit, InputsOf(unit, vs, env)) =
                    [ok |-> TRUE,
                     val |-> ValueOf(dep.eq_lhs, env).val - ValueOf(dep.eq_rhs, env).val]

\* the end-to-end scenario of C1 alone: 'a.b + c' = '10' with a_b = 3, c = 4
\* gives -3 in either iteration order
EndToEndScenario ==
    \A o \in Orders(AllVars(E_ab_c.lhs, E_ab_c.rhs)) :
        Compute(create_component(Dep(<<"d", "1">>, E_ab_c, None, FALSE), o),
                (<<"a", "_", "b">> :> 3) @@ (<<"c">> :> 4)) = [ok |-> TRUE, val |-> 0 - 3]

\* C2: after addPair returns, every input of the residual unit it created has
\* an incoming connection (connections are keyed by target, so at most one).
C2_EveryInputConnected ==
    Returned =>
        LET d == DepCompName(LastCall.dep)
        IN  \A in \in graph.depUnits[d].inputs :
                d \o <<".">> \o in \in DOMAIN graph.connections

\* C3: for every wired pair, when the group can be evaluated and the balance
\* residual of the pair is zero, value(eq_lhs) = value(eq_rhs) for the current
\* signal values.
C3_ZeroResidualMeansEquationHolds ==
    Returned =>
        \A k \in 1..Len(calls) :
            LET dep == calls[k].dep
                r == BalanceResidual(graph, calls[k].indep.name)
                env == EnvOf(graph, dep)
            IN  (r.ok /\ r.val = RInt(0)) =>
                    /\ ValueOf(dep.eq_lhs, env).ok
                    /\ ValueOf(dep.eq_rhs, env).ok
                    /\ ValueOf(dep.eq_lhs, env).val = ValueOf(dep.eq_rhs, env).val

\* C3 for the pairs whose dependent carries value_rhs: the constant is in the
\* residual unit's rhs variable and again at the balance rhs port
C3_ValueRhsAppliedOnce ==
    Returned =>
        \A k \in 1..Len(calls) :
            LET dep == calls[k].dep
                r == BalanceResidual(graph, calls[k].indep.name)
                env == EnvOf(graph, dep)
            IN  (dep.value_rhs # None /\ r.ok /\ r.val = RInt(0)) =>
                    /\ ValueOf(dep.eq_lhs, env).ok
                    /\ ValueOf(dep.eq_rhs, env).ok
                    /\ ValueOf(dep.eq_lhs, env).val = ValueOf(dep.eq_rhs, env).val

\* the equation is no arithmetic over its variable tokens
IllFormed(dep) ==
    LET env == [v \in AllVars(dep.eq_lhs, dep.eq_rhs) |-> 0]
    IN  ~ValueOf(dep.eq_lhs, env).ok \/ ~ValueOf(dep.eq_rhs, env).ok

\* C3 for groups in which no constant source is shared by two residual units,
\* no dependent carries value_rhs and every equation is well-formed: there
\* the zero balance residual does imply the equation
C3_HoldsWithoutSharedSource ==
    (Returned /\ (\A i, j \in 1..Len(calls) :
                    i # j => rhs_vars(calls[i].dep.eq_rhs) \cap rhs_vars(calls[j].dep.eq_rhs) = {})
              /\ \A i \in 1..Len(calls) : calls[i].dep.value_rhs = None /\ ~IllFormed(calls[i].dep))
    => C3_ZeroResidualMeansEquationHolds

\* a pair of C3_HoldsWithoutSharedSource that converged after a signal moved
C3_SomePairConverged ==
    /\ Returned
    /\ nsets > 0
    /\ \E k \in 1..Len(calls) :
          /\ calls[k].dep.eq_lhs = E_ab_c.lhs
          /\ BalanceResidual(graph, calls[k].indep.name).ok
          /\ BalanceResidual(graph, calls[k].indep.name).val = RInt(0)

\* C9: a successful addPair registers exactly one balance state, named after
\* the independent, with the independent's val, lower, upper and units and the
\* dependent's eq_units, and adds the connections balance.<name> -> varName
\* and dependent_comp_<dep.name>.residual -> balance.lhs:<name>.
C9_RegistersAndConnects ==
    [][(ncalls' = ncalls + 1 /\ graph'.err = "none") =>
        LET c == calls'[Len(calls')]
            n == c.indep.name
        IN  /\ n \notin DOMAIN graph.balStates
            /\ DOMAIN graph'.balStates = DOMAIN graph.balStates \cup {n}
            /\ \A m \in DOMAIN graph.balStates : graph'.balStates[m] = graph.balStates[m]
            /\ graph'.balStates[n] =
                  [val |-> c.indep.val, lower |-> c.indep.lower, upper |-> c.indep.upper,
                   units |-> c.indep.units, eq_units |-> c.dep.eq_units]
            /\ c.indep.varName \notin DOMAIN graph.connections
            /\ c.indep.varName \in DOMAIN graph'.connections
            /\ graph'.connections[c.indep.varName] = T_balance_ \o n
            /\ T_balance_ \o T_lhs_ \o n \in DOMAIN graph'.connections
            /\ graph'.connections[T_balance_ \o T_lhs_ \o n] = T_dependent_comp_ \o c.dep.name \o T_residual
    ]_vars

\* a successful call whose dependent was left unnamed, after another pair
C9_UnnamedPairWired ==
    /\ Returned
    /\ Len(calls) = 2
    /\ LastCall.dep.name = T_no_name
    /\ LastCall.indep.name \in DOMAIN graph.balStates

\* C10: with value_rhs given (0 included) the port balance.rhs:<name> is
\* connected from an output of the group that holds value_rhs; without
\* value_rhs the port is left unconnected.
C10_RhsPortSource ==
    (Returned /\ nsets = 0) =>
        LET rhsT == T_balance_ \o T_rhs_ \o LastCall.indep.name
            v == LastCall.dep.value_rhs
        IN  IF v # None
            THEN /\ rhsT \in DOMAIN graph.connections
                 /\ OutputExists(graph, graph.connections[rhsT])
                 /\ graph.connections[rhsT] \in DOMAIN graph.sigval
                 /\ graph.sigval[graph.connections[rhsT]] = v[1]
            ELSE rhsT \notin DOMAIN graph.connections

\* the half of C10 for a dependent without value_rhs
C10_NoValueNoConnection ==
    (Returned /\ LastCall.dep.value_rhs = None) =>
        T_balance_ \o T_rhs_ \o LastCall.indep.name \notin DOMAIN graph.connections

\* the connection C10 is about, as addPair records it
C10_RecordedRhsConnection ==
    (Returned /\ LastCall.dep.value_rhs # None) =>
        LET rhsT == T_balance_ \o T_rhs_ \o LastCall.indep.name
        IN  /\ rhsT \in DOMAIN graph.connections
            /\ graph.connections[rhsT] = T_rhs_u \o LastCall.indep.name
            /\ graph.balInputs[T_rhs_u \o LastCall.indep.name] = LastCall.dep.value_rhs[1]

(***************************************************************************)
(* Claims about NewBalanceComp.py, stated for SpecBalance                  *)
(***************************************************************************)
\* apply_nonlinear has written the residuals for the inputs in nb_inputs
Applied == phase = "applied"

\* the multiplier of a state: its port, 1 when use_mult is off
MultAt(o, i) == IF o.use_mult THEN nb_inputs[o.mult_name[1]].v[i] ELSE RInt(1)

LhsAt(o, i) == IF o.lhs_val # None THEN o.lhs_val[1].v[i] ELSE nb_inputs[o.lhs_name[1]].v[i]

RhsAt(o, i) == IF o.rhs_val # None THEN o.rhs_val[1].v[i] ELSE nb_inputs[o.rhs_name[1]].v[i]

\* the scale factor as the specification gives it
SpecScale(r, normalize) ==
    IF ~normalize THEN RInt(1)
    ELSE IF ~RLess(RAbs(r), RInt(2)) THEN Rat(RAbs(r)[2], RAbs(r)[1])
    ELSE Rat(4 * r[2] * r[2], r[1] * r[1] + 4 * r[2] * r[2])

\* C4: the residual written by apply_nonlinear is zero iff mult*lhs = rhs,
\* for ports and for folded constants of any numeric type.
C4_ZeroIffBalanced ==
    Applied =>
        \A n \in DOMAIN comp.state_vars :
            LET o == comp.state_vars[n]
            IN  \A i \in 1..o.shape :
                    (residuals[n][i] = RInt(0)) <=> (RMul(MultAt(o, i), LhsAt(o, i)) = RhsAt(o, i))

\* C4 for the states whose rhs is not a folded integer constant
C4_ZeroIffBalancedFloatRhs ==
    Applied =>
        \A n \in DOMAIN comp.state_vars :
            LET o == comp.state_vars[n]
            IN  (o.rhs_val = None \/ o.rhs_val[1].dtype = "float") =>
                    \A i \in 1..o.shape :
                        (residuals[n][i] = RInt(0)) <=> (RMul(MultAt(o, i), LhsAt(o, i)) = RhsAt(o, i))

\* C5: apply_nonlinear writes (mult*lhs - rhs) * scale with the multiplier
\* enabled and (lhs - rhs) * scale without it, element by element, scale being
\* the scale factor of the same rhs element.
C5_ResidualFormula ==
    Applied =>
        \A n \in DOMAIN comp.state_vars :
            LET o == comp.state_vars[n]
                rhs == IF o.rhs_val # None THEN o.rhs_val[1] ELSE nb_inputs[o.rhs_name[1]]
            IN  /\ Len(residuals[n]) = o.shape
                /\ \A i \in 1..o.shape :
                      LET scale == ScaleFactor([dtype |-> rhs.dtype, v |-> <<rhs.v[i]>>], o.normalize)[1]
                      IN  residuals[n][i] =
                            IF o.use_mult
                            THEN RMul(RSub(RMul(nb_inputs[o.mult_name[1]].v[i], LhsAt(o, i)), RhsAt(o, i)), scale)
                            ELSE RMul(RSub(LhsAt(o, i), RhsAt(o, i)), scale)

\* a state with a multiplier port and unequal elements has been evaluated
C5_VectorWithMultEvaluated ==
    /\ Applied
    /\ \E n \in DOMAIN comp.state_vars :
          LET o == comp.state_vars[n]
          IN  /\ o.use_mult /\ o.normalize /\ o.lhs_val = None /\ o.rhs_val = None
              /\ nb_inputs[o.mult_name[1]].v[1] = RInt(2)
              /\ nb_inputs[o.rhs_name[1]].v[1] # nb_inputs[o.rhs_name[1]].v[2]
              /\ residuals[n][1] # residuals[n][2]

\* C6: the scale factor is 1 without normalize, 1/|rhs| for |rhs| >= 2 and
\* 1/(0.25 rhs^2 + 1) for |rhs| < 2; every element is in exactly one branch
\* and the scale is strictly positive.
C6_ScaleFactor ==
    Applied =>
        \A n \in DOMAIN comp.state_vars :
            LET o == comp.state_vars[n]
                rhs == IF o.rhs_val # None THEN o.rhs_val[1] ELSE nb_inputs[o.rhs_name[1]]
                sf == ScaleFactor(rhs, o.normalize)
            IN  /\ idxs_nz(rhs) \cap idxs_nnz(rhs) = {}
                /\ idxs_nz(rhs) \cup idxs_nnz(rhs) = 1..o.shape
                /\ \A i \in 1..o.shape :
                      /\ sf[i] = SpecScale(rhs.v[i], o.normalize)
                      /\ RLess(RInt(0), sf[i])

\* C6 for the states whose rhs is not a folded integer constant
C6_ScaleFactorFloatRhs ==
    Applied =>
        \A n \in DOMAIN comp.state_vars :
            LET o == comp.state_vars[n]
                rhs == IF o.rhs_val # None THEN o.rhs_val[1] ELSE nb_inputs[o.rhs_name[1]]
                sf == ScaleFactor(rhs, o.normalize)
            IN  rhs.dtype = "float" =>
                  /\ idxs_nz(rhs) \cap idxs_nnz(rhs) = {}
                  /\ idxs_nz(rhs) \cup idxs_nnz(rhs) = 1..o.shape
                  /\ \A i \in 1..o.shape :
                        /\ sf[i] = SpecScale(rhs.v[i], o.normalize)
                        /\ RLess(RInt(0), sf[i])

\* the values of the scale the claim names: scale(0) = 1, scale(10) = 1/10,
\* and both branch formulas give 1/2 at |rhs| = 2
C6_NamedValues ==
    /\ ScaleFactor(np_full(1, PyFloat(0, 1)), TRUE)[1] = RInt(1)
    /\ ScaleFactor(np_full(1, PyFloat(10, 1)), TRUE)[1] = Rat(1, 10)
    /\ ScaleFar(RInt(2)) = Rat(1, 2) /\ ScaleNear(RInt(2)) = Rat(1, 2)
    /\ ScaleFar(RInt(0 - 2)) = Rat(1, 2) /\ ScaleNear(RInt(0 - 2)) = Rat(1, 2)

\* two registered states that differ only in how one side is supplied
SameButRhs(o, q) ==
    /\ o.lhs_val = q.lhs_val /\ o.use_mult = q.use_mult
    /\ o.normalize = q.normalize /\ o.shape = q.shape

SameButLhs(o, q) ==
    /\ o.rhs_val = q.rhs_val /\ o.use_mult = q.use_mult
    /\ o.normalize = q.normalize /\ o.shape = q.shape

\* C7, rhs half: a state registered with rhs_val = c has the residual of a
\* state registered without rhs_val whose rhs port carries c.
C7_FoldedRhs ==
    Applied =>
        \A n, m \in DOMAIN comp.state_vars :
            LET o == comp.state_vars[n]
                q == comp.state_vars[m]
            IN  (/\ o.rhs_val # None /\ q.rhs_val = None /\ SameButRhs(o, q)
                 /\ nb_inputs[q.rhs_name[1]].v = o.rhs_val[1].v)
                => residuals[n] = residuals[m]

\* C7, lhs half: the same for lhs_val = c against an lhs port carrying c.
C7_FoldedLhs ==
    Applied =>
        \A n, m \in DOMAIN comp.state_vars :
            LET o == comp.state_vars[n]
                q == comp.state_vars[m]
            IN  (/\ o.lhs_val # None /\ q.lhs_val = None /\ SameButLhs(o, q)
                 /\ nb_inputs[q.lhs_name[1]].v = o.lhs_val[1].v)
                => residuals[n] = residuals[m]

\* C7: folding a constant, integer or not, is equivalent to feeding it
\* through a port, on either side.
C7_FoldingEqualsPort == C7_FoldedRhs /\ C7_FoldedLhs

\* C7, rhs half, for constants given as floats
C7_FoldedFloatRhs ==
    Applied =>
        \A n, m \in DOMAIN comp.state_vars :
            LET o == comp.state_vars[n]
                q == comp.state_vars[m]
            IN  (/\ o.rhs_val # None /\ q.rhs_val = None /\ SameButRhs(o, q)
                 /\ o.rhs_val[1].dtype = "float"
                 /\ nb_inputs[q.rhs_name[1]].v = o.rhs_val[1].v)
                => residuals[n] = residuals[m]

\* C8: add_balance on a registered name fails with DuplicateStateError and
\* leaves the options stored by the first registration as they were.
C8_DuplicateRejected ==
    [][(nb_call' # nb_call /\ nb_call' # <<>> /\ nb_call'[1].name \in DOMAIN comp.state_vars) =>
          /\ comp'.err = "DuplicateStateError"
          /\ comp'.state_vars = comp.state_vars
    ]_vars

\* C8 for two addPair calls whose independents share a name
C8_DuplicatePairRejected ==
    [][(ncalls' = ncalls + 1 /\ calls'[Len(calls')].indep.name \in DOMAIN graph.balStates
          /\ T_dependent_comp_ \o calls'[Len(calls')].dep.name \notin graph.subsystems) =>
          /\ graph'.err = "DuplicateStateError"
          /\ graph'.balStates = graph.balStates
    ]_vars

(***************************************************************************)
(* Claims about the variables and the errors of addPair, stated for Spec   *)
(***************************************************************************)
\* this step is a call of addPair; ThisCall holds its arguments
CallStep == ncalls' = ncalls + 1

ThisCall == calls'[Len(calls')]

CallReturned == CallStep /\ graph'.err = "none"

\* the call meets no name already in use
FreshNames == /\ DepCompName(ThisCall.dep) \notin graph.subsystems
              /\ ThisCall.indep.name \notin DOMAIN graph.balStates

\* the call added a residual unit, NewUnit
UnitAdded == CallStep /\ DepCompName(ThisCall.dep) \in DOMAIN graph'.depUnits \ DOMAIN graph.depUnits

NewUnit == graph'.depUnits[DepCompName(ThisCall.dep)]

\* the variable tokens of the rhs expression
RhsTokens(dep) == Range(extract_variables(dep.eq_rhs))

\* the input of the residual unit of dep that belongs to var
InputOf(dep, var) == DepCompName(dep) \o <<".">> \o VarName(var)

\* the subsystems a step added
Added == graph'.subsystems \ graph.subsystems

\* C11, lhs half: a variable that occurs only in the lhs gets no auto-created
\* source and is connected from the signal of its name.
C11_LhsOnlyConnected ==
    [][CallReturned =>
        LET dep == ThisCall.dep
        IN  \A var \in AllVars(dep.eq_lhs, dep.eq_rhs) \ RhsTokens(dep) :
                /\ VarName(var) \o T_comp \notin Added
                /\ InputOf(dep, var) \in DOMAIN graph'.connections
                /\ graph'.connections[InputOf(dep, var)] = var
    ]_vars

\* C11, rhs half: a variable token of the rhs that has no source yet gets an
\* auto-created ConstantSource, whatever stands around it in the rhs.
C11_RhsTokenGetsSource ==
    [][CallReturned =>
        LET dep == ThisCall.dep
        IN  \A var \in RhsTokens(dep) :
                (/\ ~dep.interconnect_rhs /\ dep.promotion_lhs # Some(var)
                 /\ VarName(var) \o T_comp \notin graph.subsystems
                 /\ var \notin PromotedOutputs(graph))
                => VarName(var) \o T_comp \in graph'.subsystems
    ]_vars

\* C11: a variable is treated as rhs-side exactly when it is a variable token
\* of the rhs expression (parentheses around it included); a variable of the
\* lhs only is connected from the existing signal and gets no source.
C11_RhsSideIffRhsToken ==
    [][CallReturned =>
        LET dep == ThisCall.dep
        IN  /\ \A var \in RhsTokens(dep) :
                  (/\ ~dep.interconnect_rhs /\ dep.promotion_lhs # Some(var)
                   /\ VarName(var) \o T_comp \notin graph.subsystems
                   /\ var \notin PromotedOutputs(graph))
                  => VarName(var) \o T_comp \in graph'.subsystems
            /\ \A var \in AllVars(dep.eq_lhs, dep.eq_rhs) \ RhsTokens(dep) :
                  /\ VarName(var) \o T_comp \notin Added
                  /\ InputOf(dep, var) \in DOMAIN graph'.connections
                  /\ graph'.connections[InputOf(dep, var)] = var
    ]_vars

\* C12: an rhs variable token that is the promotion_lhs of the dependent is
\* connected from the signal of that name and no ConstantSource is created
\* for it.
C12_PromotionTargetDirect ==
    [][CallReturned =>
        LET dep == ThisCall.dep
        IN  \A var \in RhsTokens(dep) :
                dep.promotion_lhs = Some(var) =>
                    /\ VarName(var) \o T_comp \notin Added
                    /\ InputOf(dep, var) \in DOMAIN graph'.connections
                    /\ graph'.connections[InputOf(dep, var)] = var
    ]_vars

\* C12 for a promotion_lhs that occurs in the lhs only
C12_LhsPromotionTargetDirect ==
    [][CallReturned =>
        LET dep == ThisCall.dep
        IN  \A var \in AllVars(dep.eq_lhs, dep.eq_rhs) \ RhsTokens(dep) :
                dep.promotion_lhs = Some(var) =>
                    /\ VarName(var) \o T_comp \notin Added
                    /\ InputOf(dep, var) \in DOMAIN graph'.connections
                    /\ graph'.connections[InputOf(dep, var)] = var
    ]_vars

\* the token with every '.' and every ':' replaced by '_'
SafeName(var) == ReplaceChar(ReplaceChar(var, ".", "_"), ":", "_")

\* C13: every input name of the residual unit is its token with every '.'
\* and every ':' replaced by '_'; no input name contains '.' or ':'.
C13_InputNamesSafe ==
    [][UnitAdded =>
        /\ NewUnit.inputs = {SafeName(v) : v \in AllVars(ThisCall.dep.eq_lhs, ThisCall.dep.eq_rhs)}
        /\ \A n \in NewUnit.inputs : \A i \in 1..Len(n) : n[i] \notin {".", ":"}
    ]_vars

\* C13 for '.' alone
C13_NoDotInInputNames ==
    [][UnitAdded => \A n \in NewUnit.inputs : \A i \in 1..Len(n) : n[i] # "."]_vars

\* C14: the residual unit has one input per distinct variable token, and two
\* distinct tokens never share an input name.
C14_OneInputPerToken ==
    [][UnitAdded =>
        LET vs == AllVars(ThisCall.dep.eq_lhs, ThisCall.dep.eq_rhs)
        IN  /\ Cardinality(NewUnit.inputs) = Cardinality(vs)
            /\ \A v, w \in vs : v # w => VarName(v) # VarName(w)
    ]_vars

\* a list without a repeated element
NoRepeat(l) == \A i, j \in 1..Len(l) : l[i] = l[j] => i = j

\* C15: the result of extract_variables has no repeated element.
C15_NoRepeatedToken ==
    \A k \in 1..Len(calls) :
        (IsStr(calls[k].dep.eq_lhs) /\ IsStr(calls[k].dep.eq_rhs)) =>
            /\ NoRepeat(extract_variables(calls[k].dep.eq_lhs))
            /\ NoRepeat(extract_variables(calls[k].dep.eq_rhs))

\* the text holds numeric literals, operators, parentheses and blanks only
NoVariable(text) ==
    /\ IsStr(text)
    /\ \A i \in 1..Len(RefLexFrom(text, 1)) : RefLexFrom(text, 1)[i].k # "var"

NoEnv == [v \in {} |-> 0]

\* C16: for an equation of numeric literals and operators extract_variables
\* returns nothing, the residual unit has no input and its residual is
\* value(lhs) - value(rhs) whatever the signals of the graph are.
C16_ConstantEquation ==
    Returned =>
        \A k \in 1..Len(calls) :
            LET dep == calls[k].dep
                d == DepCompName(dep)
            IN  (NoVariable(dep.eq_lhs) /\ NoVariable(dep.eq_rhs)) =>
                    /\ extract_variables(dep.eq_lhs) = <<>>
                    /\ extract_variables(dep.eq_rhs) = <<>>
                    /\ graph.depUnits[d].inputs = {}
                    /\ DepResidual(graph, d) =
                          [ok |-> TRUE,
                           val |-> ValueOf(dep.eq_lhs, NoEnv).val - ValueOf(dep.eq_rhs, NoEnv).val]

\* C16 for the equations whose literals are integers
C16_IntegerLiterals ==
    Returned =>
        \A k \in 1..Len(calls) :
            LET dep == calls[k].dep
                d == DepCompName(dep)
            IN  (/\ NoVariable(dep.eq_lhs) /\ NoVariable(dep.eq_rhs)
                 /\ \A i \in 1..Len(dep.eq_lhs) : dep.eq_lhs[i] # ".")
                => /\ extract_variables(dep.eq_lhs) = <<>>
                   /\ extract_variables(dep.eq_rhs) = <<>>
                   /\ graph.depUnits[d].inputs = {}
                   /\ DepResidual(graph, d) =
                          [ok |-> TRUE,
                           val |-> ValueOf(dep.eq_lhs, NoEnv).val - ValueOf(dep.eq_rhs, NoEnv).val]

\* a constant equation was wired, another pair too, and a signal has moved
C16_ConstantPairAfterSetVal ==
    /\ Returned
    /\ Len(calls) = 2
    /\ nsets > 0
    /\ \E k \in 1..Len(calls) :
          /\ calls[k].dep.eq_lhs = E_num.lhs
          /\ DepResidual(graph, DepCompName(calls[k].dep)) = [ok |-> TRUE, val |-> 4]

\* the number a PyNumber stands for
NumberOf(x) == NumVal(SubSeq(x, 2, Len(x)))

\* C17: a dependent whose rhs is a number is accepted: addPair returns and
\* the residual unit computes value(lhs) minus that number.
C17_NumericRhsAccepted ==
    [][(CallStep /\ FreshNames /\ IsStr(ThisCall.dep.eq_lhs) /\ ~IsStr(ThisCall.dep.eq_rhs)) =>
        LET dep == ThisCall.dep
            vs == Range(extract_variables(dep.eq_lhs))
        IN  /\ graph'.err = "none"
            /\ DepCompName(dep) \in DOMAIN graph'.depUnits
            /\ \A env \in [vs -> EnvVals] :
                  Compute(NewUnit, InputsOf(NewUnit, vs, env)) =
                      [ok |-> TRUE, val |-> ValueOf(dep.eq_lhs, env).val - NumberOf(dep.eq_rhs)]
    ]_vars

\* C18: for an equation that is not well-formed the call fails with
\* ExpressionError before the residual unit is added to the graph.
C18_ExpressionErrorAtSynthesis ==
    [][(CallStep /\ FreshNames /\ IsStr(ThisCall.dep.eq_lhs) /\ IsStr(ThisCall.dep.eq_rhs)
          /\ IllFormed(ThisCall.dep)) =>
        /\ graph'.err = "ExpressionError"
        /\ DepCompName(ThisCall.dep) \notin graph'.subsystems
    ]_vars

\* var has no producer and addPair may not create a source for it
Unresolved(g, dep, var) ==
    /\ var \notin PromotedOutputs(g)
    /\ var \notin RhsTokens(dep) \/ dep.interconnect_rhs

\* C19: a variable without producer that is not eligible for a ConstantSource
\* makes addPair fail with UnresolvedVariableError; no input of the residual
\* unit is connected from a name that is no output of the graph.
C19_UnresolvedVariable ==
    [][(CallStep /\ FreshNames /\ IsStr(ThisCall.dep.eq_lhs) /\ IsStr(ThisCall.dep.eq_rhs)) =>
        LET dep == ThisCall.dep
            vs == AllVars(dep.eq_lhs, dep.eq_rhs)
        IN  /\ (\E var \in vs : Unresolved(graph, dep, var)) => graph'.err = "UnresolvedVariableError"
            /\ \A var \in vs :
                  InputOf(dep, var) \in DOMAIN graph'.connections
                  => OutputExists(graph', graph'.connections[InputOf(dep, var)])
    ]_vars

\* C20: a call of addPair that fails leaves the graph and the balance
\* component as they were before the call.
C20_AllOrNothing ==
    [][(CallStep /\ graph'.err # "none") => graph' = [graph EXCEPT !.err = graph'.err]]_vars

\* C20 for the calls that fail on the name of the residual unit
C20_UnitNameInUseLeavesGraph ==
    [][(CallStep /\ DepCompName(ThisCall.dep) \in graph.subsystems) =>
        /\ graph'.err # "none"
        /\ graph' = [graph EXCEPT !.err = graph'.err]
    ]_vars


(***************************************************************************)
(* Claims about the sweep over the input table, stated for SpecSweep       *)
(***************************************************************************)
\* the row the loop is working on
CurrentRow == input_data.rows[row_i + 1]

\* no step of main is left to take
SweepEnded == sweep_pc \in {"raised", "written"}

\* C21: a case that does not converge is confined to its row: the sweep ends
\* only after every row was taken, and the results of the converged rows
\* are returned and written.
C21_ErrorConfinedToCase ==
    SweepEnded => (row_i = Len(input_data.rows) /\ written = Some(all_results))

\* C22: after set_model_inputs every registry variable holds the value of the
\* row's cell when the cell is present and not blank, and the registry
\* default when the column is absent or the cell is blank.
C22_ValueOrDefault ==
    sweep_pc = "run" =>
        \A c \in DOMAIN variable_definitions :
            prob.values[variable_definitions[c].actual_variable] =
                IF c \in DOMAIN CurrentRow /\ CurrentRow[c] # None
                THEN CurrentRow[c][1]
                ELSE variable_definitions[c].default

\* C22 without the blank cells: a cell that holds a number is set, an absent
\* column gives the registry default
C22_PresentOrAbsent ==
    sweep_pc = "run" =>
        \A c \in DOMAIN variable_definitions :
            LET held == prob.values[variable_definitions[c].actual_variable]
            IN  /\ c \notin DOMAIN CurrentRow => held = variable_definitions[c].default
                /\ (c \in DOMAIN CurrentRow /\ CurrentRow[c] # None) => held = CurrentRow[c][1]

\* the rows in progress or completed, counted by the Problems constructed
ProblemsDue ==
    row_i + (IF sweep_pc \in {"set_inputs", "run", "collect", "raised"} THEN 1 ELSE 0)

\* C23: when every case solves the sweep returns one result per input row in
\* input order, the k-th with CASE = k and taken from the k-th Problem
\* constructed, which holds nothing of an earlier row; a row is begun only
\* when the rows before it are completed; generate_outputs writes the
\* results in the same order.
C23_OneResultPerRowInOrder ==
    /\ nprob = ProblemsDue
    /\ Len(all_results) = row_i
    /\ sweep_pc \in {"returned", "written"} =>
          /\ Len(all_results) = Len(input_data.rows)
          /\ \A k \in 1..Len(all_results) :
                /\ all_results[k].CASE = k
                /\ all_results[k].problem = k
                /\ \A c \in input_data.columns :
                      LET v == variable_definitions[c].actual_variable
                      IN  all_results[k].outputs[v] =
                             IF input_data.rows[k][c] # None
                             THEN input_data.rows[k][c][1]
                             ELSE SetupValues[v]
    /\ sweep_pc = "written" => written = Some(all_results)

\* a sweep of two rows was written, the second row blank where the first
\* holds a number
C23_TwoRowsWritten ==
    /\ sweep_pc = "written"
    /\ Len(input_data.rows) = 2
    /\ \E c \in input_data.columns :
          input_data.rows[1][c] # None /\ input_data.rows[2][c] = None


(***************************************************************************)
(* Claims about the balance pairs of HBTF.setup, stated for SpecCycle      *)
(***************************************************************************)
\* the initial value of an independent lies within the bounds given with it
WithinBounds(indep) ==
    indep.val # None =>
        /\ indep.lower # None => ~RLess(indep.val[1], indep.lower[1])
        /\ indep.upper # None => ~RLess(indep.upper[1], indep.val[1])

\* C26: every independent HBTF.setup passes to addPair has
\* lower <= initial value <= upper for each bound given with an initial value.
C26_InitialValueWithinBounds ==
    \A i \in 1..Len(cycle_calls) : WithinBounds(cycle_calls[i].indep)

\* C26 at the design point alone
C26_DesignWithinBounds ==
    cycle_point = "design" => \A i \in 1..Len(cycle_calls) : WithinBounds(cycle_calls[i].indep)

\* HBTF.setup has made its last addPair call or was ended by an exception
CycleEnded ==
    /\ cycle_point # "none"
    /\ cycle.err # "none" \/ Len(cycle_calls) = Len(SetupPairs(cycle_point))

\* the residual units whose residual is connected to the lhs port of state n
UnitsInto(n) ==
    {u \in DOMAIN cycle.depUnits :
        /\ T_balance_ \o T_lhs_ \o n \in DOMAIN cycle.connections
        /\ cycle.connections[T_balance_ \o T_lhs_ \o n] = u \o T_residual}

\* the balance states whose lhs port the residual of unit u is connected to
StatesFrom(u) == {n \in DOMAIN cycle.balStates : u \in UnitsInto(n)}

\* C27: HBTF.setup makes 4 addPair calls for a design point and 5 or 6 for an
\* off-design point, no two of them with the same independent name or the
\* same dependent name; when it ends every balance state has exactly one
\* residual unit connected to its lhs port and every residual unit feeds
\* exactly one balance state.
C27_OnePairPerBalance ==
    /\ \A i, j \in 1..Len(cycle_calls) :
          i # j => /\ cycle_calls[i].indep.name # cycle_calls[j].indep.name
                   /\ cycle_calls[i].dep.name # cycle_calls[j].dep.name
    /\ CycleEnded =>
          /\ cycle.err = "none"
          /\ Len(cycle_calls) \in (IF cycle_point = "design" THEN {4} ELSE {5, 6})
          /\ Cardinality(DOMAIN cycle.balStates) = Len(cycle_calls)
          /\ Cardinality(DOMAIN cycle.depUnits) = Len(cycle_calls)
          /\ \A n \in DOMAIN cycle.balStates : Cardinality(UnitsInto(n)) = 1
          /\ \A u \in DOMAIN cycle.depUnits : Cardinality(StatesFrom(u)) = 1

\* the setup of an off-design point in percent_thrust mode has ended
C27_OffDesignSetupEnded ==
    /\ cycle_point = "percent_thrust"
    /\ CycleEnded
    /\ Len(cycle_calls) = 5


(***************************************************************************)
(* Claims about the inputs of the residual unit, stated for Spec           *)
(***************************************************************************)
\* the connections a step made into the residual unit of its dependent
NewUnitTargets ==
    {tgt \in DOMAIN graph'.connections \ DOMAIN graph.connections :
        StartsWith(tgt, DepCompName(ThisCall.dep) \o <<".">>)}

\* C28: the inputs addPair connects in dependent_comp_<name> are inputs that
\* create_component declared for the unit: addPair derives the same
\* variables and the same input names, and targets no undeclared input.
C28_TargetsAreDeclaredInputs ==
    [][UnitAdded =>
        /\ \A tgt \in NewUnitTargets :
              \E n \in NewUnit.inputs : tgt = DepCompName(ThisCall.dep) \o <<".">> \o n
        /\ \A var \in AllVars(ThisCall.dep.eq_lhs, ThisCall.dep.eq_rhs) :
              VarName(var) \in NewUnit.inputs
    ]_vars

\* a call returned that connected the input of a variable written with a dot
C28_DottedVariableConnected ==
    /\ ncalls >= 1
    /\ graph.err = "none"
    /\ InputOf(LastCall.dep, V_a_b) \in DOMAIN graph.connections
    /\ graph.connections[InputOf(LastCall.dep, V_a_b)] = V_a_b


(***************************************************************************)
(* Claims about SolverConverter, stated for SpecSolver                     *)
(***************************************************************************)
SetupStep == sc_pc = "define" /\ sc_pc' = "done"

\* the source connected to a port of the balance in the model m
PortSource(m, port, name) == m.connections[T_balance_ \o port \o name]

\* what setup_solver connects to a port for the expression or number e
ExpectedSource(e, name, out_suffix) ==
    IF IsStr(e) /\ Len(parse_expression(e)) = 1 THEN parse_expression(e)[1]
    ELSE name \o out_suffix

\* C30: setup_solver is all-or-nothing: when it raises, no balance, subsystem
\* or connection has been added; when it returns, the i-th independent is
\* paired with the i-th dependent and there is exactly one balance per pair,
\* named after the independent.
C30_SetupSolverAllOrNothing ==
    [][SetupStep =>
        /\ sc_model'.err # "none" => sc_model' = [sc_model EXCEPT !.err = sc_model'.err]
        /\ sc_model'.err = "none" =>
              /\ Len(sc_independents) = Len(sc_dependents)
              /\ DOMAIN sc_model'.balances = {sc_independents[i].name : i \in 1..Len(sc_independents)}
              /\ Cardinality(DOMAIN sc_model'.balances) = Len(sc_independents)
              /\ \A i \in 1..Len(sc_independents) :
                    LET name == sc_independents[i].name
                    IN  /\ sc_model'.connections[sc_independents[i].var_name] = T_balance_ \o name
                        /\ PortSource(sc_model', T_lhs_, name) =
                              ExpectedSource(sc_dependents[i].eq_lhs, name, <<"_", "l", "h", "s">>)
                        /\ PortSource(sc_model', T_rhs_, name) =
                              ExpectedSource(sc_dependents[i].eq_rhs, name, <<"_", "r", "h", "s">>)
    ]_vars

\* C30 for the calls that return and for the calls that raise ValueError on
\* the lengths
C30_ReturnsPairedOrLengthError ==
    [][SetupStep =>
        /\ Len(sc_independents) # Len(sc_dependents) =>
              sc_model' = [sc_model EXCEPT !.err = "ValueError"]
        /\ sc_model'.err = "none" =>
              /\ Len(sc_independents) = Len(sc_dependents)
              /\ DOMAIN sc_model'.balances = {sc_independents[i].name : i \in 1..Len(sc_independents)}
              /\ Cardinality(DOMAIN sc_model'.balances) = Len(sc_independents)
              /\ \A i \in 1..Len(sc_independents) :
                    LET name == sc_independents[i].name
                    IN  /\ sc_model'.connections[sc_independents[i].var_name] = T_balance_ \o name
                        /\ PortSource(sc_model', T_lhs_, name) =
                              ExpectedSource(sc_dependents[i].eq_lhs, name, <<"_", "l", "h", "s">>)
                        /\ PortSource(sc_model', T_rhs_, name) =
                              ExpectedSource(sc_dependents[i].eq_rhs, name, <<"_", "r", "h", "s">>)
    ]_vars


(***************************************************************************)
(* Claims about the ports and the Jacobian of NewBalanceComp, stated for   *)
(* SpecJacobian                                                            *)
(***************************************************************************)
\* the names used by the states of a component: each state and its ports
NamesUsed(c) ==
    {<<n, "state", n>> : n \in DOMAIN c.state_vars}
    \cup {<<n, side, SidePort(c.state_vars[n], side)>> :
             n \in DOMAIN c.state_vars, side \in {"lhs", "rhs", "mult"}}

\* no name was given twice to the add_balance calls
DistinctNames(c) == \A a, b \in NamesUsed(c) : a[3] = b[3] => a = b

\* every add_balance call so far returned
Assembled == comp.err = "none" /\ nb_call # <<>>

\* C24: after add_balance calls with distinct names every registered state
\* has an lhs input port iff no lhs_val was given, an rhs input port iff no
\* rhs_val was given and a multiplier port iff use_mult is set; the ports are
\* named lhs:<name>, rhs:<name>, mult:<name> unless the call gave a name.
C24_PortsFollowOptions ==
    (Assembled /\ DistinctNames(comp)) =>
        /\ \A n \in DOMAIN comp.state_vars :
              LET o == comp.state_vars[n]
              IN  /\ (o.lhs_name[1] \in DOMAIN comp.inputs) <=> (o.lhs_val = None)
                  /\ (o.rhs_name[1] \in DOMAIN comp.inputs) <=> (o.rhs_val = None)
                  /\ (o.mult_name[1] \in DOMAIN comp.inputs) <=> o.use_mult
        /\ LET a == nb_call[1]
               o == comp.state_vars[a.name]
           IN  /\ o.lhs_name[1] = (IF a.lhs_name = None THEN "lhs:" \o a.name ELSE a.lhs_name[1])
               /\ o.rhs_name[1] = (IF a.rhs_name = None THEN "rhs:" \o a.name ELSE a.rhs_name[1])
               /\ o.mult_name[1] = (IF a.mult_name = None THEN "mult:" \o a.name ELSE a.mult_name[1])
        /\ \A port \in DOMAIN comp.inputs :
              \E k \in NamesUsed(comp) : k[2] # "state" /\ k[3] = port

\* two states are registered, one with its ports named by the call and its
\* rhs folded, the other with the default names
C24_NamedAndDefaultPorts ==
    /\ Assembled
    /\ DistinctNames(comp)
    /\ DOMAIN comp.state_vars = StateNames
    /\ "p" \in DOMAIN comp.inputs
    /\ "q" \notin DOMAIN comp.inputs
    /\ \E n \in StateNames : "mult:" \o n \in DOMAIN comp.inputs

Linearized == phase = "linearized"

\* the derivative of the scale factor as the specification gives it
SpecDScale(r, normalize) ==
    IF ~normalize THEN RInt(0)
    ELSE IF ~RLess(RAbs(r), RInt(2))
         THEN Rat(0 - RSign(r)[1] * r[2] * r[2], r[1] * r[1])
    ELSE Rat(0 - 8 * r[1] * r[2] * r[2] * r[2],
             (r[1] * r[1] + 4 * r[2] * r[2]) * (r[1] * r[1] + 4 * r[2] * r[2]))

\* the scale factor apply_nonlinear uses for element i of the rhs of a state
ScaleAt(o, i) == ScaleFactor(RhsOf(o, nb_inputs), o.normalize)[i]

\* C25: linearize writes, element by element, mult*scale for the lhs,
\* (mult*lhs - rhs)*dscale - scale for the rhs and lhs*scale for the
\* multiplier, scale being the value apply_nonlinear uses for that rhs and
\* dscale 0 without normalize, -sign(rhs)/rhs^2 for |rhs| >= 2 and
\* -0.5*rhs/(0.25*rhs^2+1)^2 otherwise; both branches give -sign(rhs)/4 at
\* |rhs| = 2.
C25_JacobianFormulas ==
    /\ Linearized =>
          \A n \in DOMAIN comp.state_vars :
              LET o == comp.state_vars[n]
              IN  \A i \in 1..o.shape :
                    /\ o.lhs_val = None =>
                          jacobian[<<n, o.lhs_name[1]>>][i] = RMul(MultAt(o, i), ScaleAt(o, i))
                    /\ o.rhs_val = None =>
                          jacobian[<<n, o.rhs_name[1]>>][i] =
                             RSub(RMul(RSub(RMul(MultAt(o, i), LhsAt(o, i)), RhsAt(o, i)),
                                       SpecDScale(RhsAt(o, i), o.normalize)),
                                  ScaleAt(o, i))
                    /\ o.use_mult =>
                          jacobian[<<n, o.mult_name[1]>>][i] = RMul(LhsAt(o, i), ScaleAt(o, i))
    /\ \A r \in {RInt(2), RInt(0 - 2)} :
          /\ DScaleFar(r) = RMul(RNeg(RSign(r)), Rat(1, 4))
          /\ DScaleNear(r) = RMul(RNeg(RSign(r)), Rat(1, 4))

\* linearize ran on a normalized state with multiplier and both ports whose
\* rhs has the element 2 of the far branch and the element 1 of the near one
C25_BothBranchesLinearized ==
    /\ Linearized
    /\ \E n \in DOMAIN comp.state_vars :
          LET o == comp.state_vars[n]
          IN  /\ o.normalize /\ o.use_mult /\ o.lhs_val = None /\ o.rhs_val = None
              /\ RhsAt(o, 1) = RInt(2)
              /\ RhsAt(o, 2) = RInt(1)
              /\ MultAt(o, 1) = RInt(2)
              /\ LhsAt(o, 1) = RInt(5)

\* C29: linearize writes an entry for (state, port) exactly where add_balance
\* declared a partial: for the lhs port iff lhs_val is absent, for the rhs
\* port iff rhs_val is absent, for the mult port iff use_mult.
C29_EntriesAreDeclaredPartials ==
    Linearized =>
        /\ DOMAIN jacobian = comp.partials
        /\ DistinctNames(comp) =>
              \A n \in DOMAIN comp.state_vars :
                  LET o == comp.state_vars[n]
                  IN  /\ (<<n, o.lhs_name[1]>> \in DOMAIN jacobian) <=> (o.lhs_val = None)
                      /\ (<<n, o.rhs_name[1]>> \in DOMAIN jacobian) <=> (o.rhs_val = None)
                      /\ (<<n, o.mult_name[1]>> \in DOMAIN jacobian) <=> o.use_mult

\* linearize ran on two states, one with folded lhs and multiplier, the other
\* with folded rhs and no multiplier
C29_MixedStatesLinearized ==
    /\ Linearized
    /\ \E n, k \in DOMAIN comp.state_vars :
          /\ comp.state_vars[n].lhs_val # None /\ comp.state_vars[n].rhs_val = None
          /\ comp.state_vars[n].use_mult
          /\ comp.state_vars[k].lhs_val = None /\ comp.state_vars[k].rhs_val # None
          /\ ~comp.state_vars[k].use_mult

====
